---------------------------- MODULE Spec2Model ----------------------------
(***************************************************************************)
(* calcr: lexer -> recursive-descent parser -> tree evaluator, driven by   *)
(* Interpreter::eval_expression on one session (variable table and last    *)
(* result).  Texts are sequences of one-character strings, character       *)
(* offsets are counted as the lexer counts them, trees are records         *)
(* [val, span, branches].                                                  *)
(*                                                                         *)
(* f64 values are modelled exactly on the part of the doubles the model    *)
(* computes with: sign and magnitude in halves (so -0.0, 0.5 and 3.5 are   *)
(* values), the infinities, NaN and the three named constants.  A result   *)
(* the model cannot represent exactly (an inexact quotient, sin(1), a      *)
(* magnitude above MaxMag) ends the evaluation with status "unmodelled";   *)
(* submissions that end so are left out by the actions' guards.            *)
(***************************************************************************)
EXTENDS Integers, Sequences, FiniteSets, TLC

\* largest magnitude (in halves) the model computes with
MaxMag == 4000
\* number of submissions in one session of Spec / SpecTokens
MaxSubmits == 3

-----------------------------------------------------------------------------
(* f64 *)

Fin(neg, mag) == [k |-> "fin", neg |-> neg, mag |-> mag]
Inf(neg)      == [k |-> "inf", neg |-> neg, mag |-> 0]
NaN           == [k |-> "nan", neg |-> FALSE, mag |-> 0]
\* a double the model does not represent exactly
Inexact       == [k |-> "inexact", neg |-> FALSE, mag |-> 0]
NamedConst(c) == [k |-> c, neg |-> FALSE, mag |-> 0]
\* a whole-number double of magnitude 10^16 or more: above 2^53 the doubles
\* are 2 or more apart, and v - 1.0 rounds back to v (at once, or after one
\* step to the double below); the model keeps the sign only
Huge(neg)     == [k |-> "huge", neg |-> neg, mag |-> 0]

\* the double n (an integer)
Whole(n) == IF n < 0 THEN Fin(TRUE, 2 * (0 - n)) ELSE Fin(FALSE, 2 * n)
\* the double n/2
Halves(n) == IF n < 0 THEN Fin(TRUE, 0 - n) ELSE Fin(FALSE, n)

IsFin(v)   == v.k = "fin"
IsModelled(v) == v.k \in {"fin", "inf", "nan"}
Signed(v)  == IF v.neg THEN 0 - v.mag ELSE v.mag
Cap(v)     == IF IsFin(v) /\ v.mag > MaxMag THEN Inexact ELSE v

\* v < 0.0, v <= 0.0, v > 0.0, v >= 0.0 (every comparison with NaN is false)
LtZero(v) == \/ IsFin(v) /\ v.neg /\ v.mag > 0
             \/ v.k \in {"inf", "huge"} /\ v.neg
LeZero(v) == \/ IsFin(v) /\ (v.neg \/ v.mag = 0)
             \/ v.k \in {"inf", "huge"} /\ v.neg
GtZero(v) == \/ IsFin(v) /\ ~v.neg /\ v.mag > 0
             \/ v.k \in {"inf", "huge"} /\ ~v.neg
             \/ v.k \in {"pi", "e", "phi"}
GeZero(v) == \/ IsFin(v) /\ (~v.neg \/ v.mag = 0)
             \/ v.k \in {"inf", "huge"} /\ ~v.neg
             \/ v.k \in {"pi", "e", "phi"}

FNeg(v) == IF v.k \in {"fin", "inf", "huge"} THEN [v EXCEPT !.neg = ~v.neg]
           ELSE IF v.k = "nan" THEN NaN ELSE Inexact

FAdd(a, b) ==
    IF ~IsModelled(a) \/ ~IsModelled(b) THEN Inexact
    ELSE IF a.k = "nan" \/ b.k = "nan" THEN NaN
    ELSE IF a.k = "inf" /\ b.k = "inf" THEN (IF a.neg = b.neg THEN a ELSE NaN)
    ELSE IF a.k = "inf" THEN a
    ELSE IF b.k = "inf" THEN b
    ELSE LET s == Signed(a) + Signed(b)
         IN  IF s = 0 THEN Fin(a.neg /\ b.neg, 0) ELSE Cap(Halves(s))

FSub(a, b) == FAdd(a, FNeg(b))

\* v - 1.0
MinusOne(v) == IF v.k = "huge" THEN v ELSE FSub(v, Whole(1))

FMul(a, b) ==
    IF ~IsModelled(a) \/ ~IsModelled(b) THEN Inexact
    ELSE IF a.k = "nan" \/ b.k = "nan" THEN NaN
    ELSE IF a.k = "inf" \/ b.k = "inf"
         THEN (IF (IsFin(a) /\ a.mag = 0) \/ (IsFin(b) /\ b.mag = 0)
               THEN NaN ELSE Inf(a.neg # b.neg))
    ELSE IF (a.mag * b.mag) % 2 # 0 THEN Inexact
    ELSE Cap(Fin(a.neg # b.neg, (a.mag * b.mag) \div 2))

FDiv(a, b) ==
    IF ~IsModelled(a) \/ ~IsModelled(b) THEN Inexact
    ELSE IF a.k = "nan" \/ b.k = "nan" THEN NaN
    ELSE IF a.k = "inf" THEN (IF b.k = "inf" THEN NaN ELSE Inf(a.neg # b.neg))
    ELSE IF b.k = "inf" THEN Fin(a.neg # b.neg, 0)
    ELSE IF b.mag = 0 THEN (IF a.mag = 0 THEN NaN ELSE Inf(a.neg # b.neg))
    ELSE IF (2 * a.mag) % b.mag # 0 THEN Inexact
    ELSE Cap(Fin(a.neg # b.neg, (2 * a.mag) \div b.mag))

RECURSIVE PowNat(_, _)
\* a multiplied n times into 1.0
PowNat(a, n) == IF n = 0 THEN Whole(1) ELSE FMul(PowNat(a, n - 1), a)

\* a.powf(b), where the result is exact
FPow(a, b) ==
    IF IsFin(b) /\ b.mag = 0 THEN Whole(1)
    ELSE IF a.k = "nan" \/ b.k = "nan" THEN NaN
    ELSE IF ~IsFin(a) \/ ~IsFin(b) \/ b.mag % 2 # 0 THEN Inexact
    ELSE IF a.mag = 2 THEN Fin(a.neg /\ (b.mag \div 2) % 2 = 1, 2)
    ELSE IF b.mag \div 2 > 12 THEN Inexact
    ELSE IF b.neg THEN FDiv(Whole(1), PowNat(a, b.mag \div 2))
    ELSE PowNat(a, b.mag \div 2)

\* the r with r * r = n, or -1
ISqrt(n) == IF \E r \in 0..128 : r * r = n
            THEN CHOOSE r \in 0..128 : r * r = n
            ELSE 0 - 1

\* a.sqrt() for a >= 0, where exact: sqrt(m/2) = sqrt(2m)/2
FSqrt(a) ==
    IF a.k = "nan" THEN NaN
    ELSE IF a.k = "inf" THEN a
    ELSE IF ~IsFin(a) THEN Inexact
    ELSE IF a.mag = 0 THEN a
    ELSE LET r == ISqrt(2 * a.mag)
         IN  IF r < 0 THEN Inexact ELSE Fin(FALSE, r)

FAbs(a) == IF a.k \in {"fin", "inf", "huge"} THEN [a EXCEPT !.neg = FALSE] ELSE a

\* the double f(a) for a finite a where it is no multiple of 1/2: it is kept
\* as the pair (f, a), and nothing is computed from it
FuncOf(f, a) == [k |-> f, neg |-> a.neg, mag |-> a.mag]
IsFuncOf(v)  == v.k \in {"Sin", "Cos", "Tan", "Asin", "Acos", "Atan", "Exp"}

\* the functions with no domain check
FTrig(f, a) ==
    IF a.k = "nan" THEN NaN
    ELSE IF f \in {"Sin", "Tan", "Asin", "Atan"} /\ IsFin(a) /\ a.mag = 0 THEN a
    ELSE IF f = "Cos" /\ IsFin(a) /\ a.mag = 0 THEN Whole(1)
    ELSE IF f = "Acos" /\ a = Whole(1) THEN Whole(0)
    ELSE IF f = "Exp" /\ IsFin(a) /\ a.mag = 0 THEN Whole(1)
    ELSE IF f = "Exp" /\ a.k = "inf" THEN (IF a.neg THEN Whole(0) ELSE a)
    ELSE IF f \in {"Sin", "Cos", "Tan", "Asin", "Acos"} /\ a.k = "inf" THEN NaN
    ELSE IF f \in {"Asin", "Acos"} /\ IsFin(a) /\ a.mag > 2 THEN NaN
    ELSE IF IsFin(a) THEN FuncOf(f, a)
    ELSE Inexact

\* a.ln() and a.log10() for a > 0, where exact
FLn(a) == IF a.k = "nan" THEN NaN
          ELSE IF a.k = "inf" THEN a
          ELSE IF a = Whole(1) THEN Whole(0)
          ELSE Inexact

FLog10(a) == IF a.k = "nan" THEN NaN
             ELSE IF a.k = "inf" THEN a
             ELSE IF a = Whole(1) THEN Whole(0)
             ELSE IF a = Whole(10) THEN Whole(1)
             ELSE IF a = Whole(100) THEN Whole(2)
             ELSE IF a = Whole(1000) THEN Whole(3)
             ELSE Inexact

\* num.fract() == 0.0
FractIsZero(v) == (IsFin(v) /\ v.mag % 2 = 0) \/ v.k = "huge"

-----------------------------------------------------------------------------
(* characters: char::is_whitespace, is_numeric, is_alphabetic, to_lowercase,
   len_utf8 on the characters the model draws texts from.  "<pi>", "<phi>",
   "<sqrt>" and "<half>" stand for U+03C0, U+03D5, U+221A and U+00BD. *)

Digits  == {"0", "1", "2", "3", "4", "5", "6", "7", "8", "9"}
Lower   == {"a", "b", "c", "e", "g", "h", "i", "l", "n", "o", "p", "q", "r",
            "s", "t", "x", "y"}
Upper   == {"X", "E"}
Symbols == {"+", "-", "*", "/", "^", "!", "(", ")", "|", "=", "?", ".",
            "[", "]", "{", "}", "<sqrt>"}

is_whitespace(ch) == ch = " "
is_numeric(ch)    == ch \in Digits \cup {"<half>"}
is_alphabetic(ch) == ch \in Lower \cup Upper \cup {"<pi>", "<phi>"}
to_lowercase(ch)  == IF ch = "X" THEN "x" ELSE IF ch = "E" THEN "e" ELSE ch
len_utf8(ch)      == IF ch \in {"<pi>", "<phi>", "<half>"} THEN 2
                     ELSE IF ch = "<sqrt>" THEN 3 ELSE 1

DigitVal(ch) == CASE ch = "0" -> 0 [] ch = "1" -> 1 [] ch = "2" -> 2
                  [] ch = "3" -> 3 [] ch = "4" -> 4 [] ch = "5" -> 5
                  [] ch = "6" -> 6 [] ch = "7" -> 7 [] ch = "8" -> 8
                  [] ch = "9" -> 9

RECURSIVE StrOf(_)
\* the String made of the characters cs
StrOf(cs) == IF cs = <<>> THEN "" ELSE Head(cs) \o StrOf(Tail(cs))

RECURSIVE ByteLen(_)
\* String::len(): the length in bytes
ByteLen(cs) == IF cs = <<>> THEN 0 ELSE len_utf8(Head(cs)) + ByteLen(Tail(cs))

-----------------------------------------------------------------------------
(* tokens *)

NoNum == Fin(FALSE, 0)
TokName(name) == [t |-> "Name", k |-> name, num |-> NoNum]
TokNum(num)   == [t |-> "Num", k |-> "", num |-> num]
TokOp(op)     == [t |-> "Op", k |-> op, num |-> NoNum]
TokKeyword(kw) == [t |-> "Keyword", k |-> kw, num |-> NoNum]
ParenOpen     == [t |-> "ParenOpen", k |-> "", num |-> NoNum]
ParenClose    == [t |-> "ParenClose", k |-> "", num |-> NoNum]
AbsDelim      == [t |-> "AbsDelim", k |-> "", num |-> NoNum]
Token(val, span) == [val |-> val, span |-> span]

\* CalcrError { desc, span }; desc is the message, arg what format! puts in it
CalcrError(desc, arg, span) == [desc |-> desc, arg |-> arg, span |-> span]
NoSpan == <<>>
NoErr  == CalcrError("", "", NoSpan)

-----------------------------------------------------------------------------
(* lexer: the state is [pos, iter] *)

Lexer(pos, iter) == [pos |-> pos, iter |-> iter]

RECURSIVE consume_while(_, _, _)
\* the characters consumed while they are in pred, lowercased as
\* consume_char returns them, and the lexer after them
consume_while(lx, pred, out) ==
    IF lx.iter # <<>> /\ Head(lx.iter) \in pred
    THEN consume_while(Lexer(lx.pos + 1, Tail(lx.iter)), pred,
                       Append(out, to_lowercase(Head(lx.iter))))
    ELSE [str |-> out, lx |-> lx]

Chars == Digits \cup Lower \cup Upper \cup Symbols
            \cup {" ", "<pi>", "<phi>", "<half>"}
WhitespacePred == {ch \in Chars : is_whitespace(ch)}
NumberPred     == {ch \in Chars : is_numeric(ch) \/ ch = "."}
NamePred       == {ch \in Chars : is_alphabetic(ch)}

consume_whitespace(lx) == consume_while(lx, WhitespacePred, <<>>).lx

RECURSIVE DecInt(_, _)
\* the integer the decimal digits ds write, after acc
DecInt(ds, acc) == IF ds = <<>> THEN acc
                   ELSE DecInt(Tail(ds), 10 * acc + DigitVal(Head(ds)))

RECURSIVE StripZeros(_)
StripZeros(ds) == IF ds # <<>> /\ ds[Len(ds)] = "0"
                  THEN StripZeros(SubSeq(ds, 1, Len(ds) - 1)) ELSE ds

\* an integer literal of this many digits is 10^16 or more
HugeDigits == 17

\* str::parse::<f64>() of a run of numeric characters and dots:
\* [ok, num]; a literal that is no multiple of 1/2 is Inexact
ParseF64(cs) ==
    LET dots == {i \in 1..Len(cs) : cs[i] = "."}
        ok   == /\ \A i \in 1..Len(cs) : cs[i] \in Digits \cup {"."}
                /\ Cardinality(dots) <= 1
                /\ \E i \in 1..Len(cs) : cs[i] \in Digits
        dot  == IF dots = {} THEN Len(cs) + 1 ELSE CHOOSE i \in dots : TRUE
        int  == SubSeq(cs, 1, dot - 1)
        frac == StripZeros(SubSeq(cs, dot + 1, Len(cs)))
        num  == IF Len(int) >= HugeDigits /\ int[1] # "0" /\ frac = <<>>
                THEN Huge(FALSE)
                ELSE IF Len(int) > 6 THEN Inexact
                ELSE IF frac = <<>> THEN Cap(Fin(FALSE, 2 * DecInt(int, 0)))
                ELSE IF frac = <<"5">> THEN Cap(Fin(FALSE, 2 * DecInt(int, 0) + 1))
                ELSE Inexact
    IN  [ok |-> ok, num |-> IF ok THEN num ELSE NaN]

\* usize arithmetic is modulo 2^64; the model computes modulo UsizeModulus,
\* far above every offset it reaches
UsizeModulus == 1073741824

\* a - b on usize where overflow is not checked: below zero it wraps
wrapping_sub(a, b) == IF a >= b THEN a - b ELSE a - b + UsizeModulus

\* lex_number: `overflow` says that `self.pos - num_str.len()` went below
\* zero, which panics where overflow is checked and wraps where it is not
lex_number(lx) ==
    LET c       == consume_while(lx, NumberPred, <<>>)
        num_str == c.str
        p       == ParseF64(num_str)
        span    == <<wrapping_sub(c.lx.pos, ByteLen(num_str)), c.lx.pos>>
    IN  IF p.ok
        THEN [ok |-> TRUE, tok |-> Token(TokNum(p.num), span), err |-> NoErr,
              lx |-> c.lx, overflow |-> FALSE]
        ELSE [ok |-> FALSE, tok |-> Token(TokNum(NaN), span),
              err |-> CalcrError("Invalid number", StrOf(num_str), span),
              lx |-> c.lx, overflow |-> c.lx.pos < ByteLen(num_str)]

lex_name(lx) ==
    LET c        == consume_while(lx, NamePred, <<>>)
        name_str == c.str
        name_len == Len(name_str)
        span     == <<c.lx.pos - name_len, c.lx.pos>>
    IN  [ok |-> TRUE, tok |-> Token(TokName(StrOf(name_str)), span),
         err |-> NoErr, lx |-> c.lx, overflow |-> FALSE]

\* lex_single_char with the span of its error taken after the character
lex_single_char_span_after(lx) ==
    LET ch   == to_lowercase(Head(lx.iter))
        lx1  == Lexer(lx.pos + 1, Tail(lx.iter))
        span == <<lx1.pos - 1, lx1.pos>>
        good == {"+", "-", "*", "/", "^", "!", "<sqrt>", "(", ")", "|"}
        val  == CASE ch = "+" -> TokOp("Plus")
                  [] ch = "-" -> TokOp("Minus")
                  [] ch = "*" -> TokOp("Mult")
                  [] ch = "/" -> TokOp("Div")
                  [] ch = "^" -> TokOp("Pow")
                  [] ch = "!" -> TokOp("Fact")
                  [] ch = "<sqrt>" -> TokName("sqrt")
                  [] ch = "(" -> ParenOpen
                  [] ch = ")" -> ParenClose
                  [] ch = "|" -> AbsDelim
                  [] OTHER -> TokName("")
    IN  IF ch \in good
        THEN [ok |-> TRUE, tok |-> Token(val, span), err |-> NoErr, lx |-> lx1,
              overflow |-> FALSE]
        ELSE [ok |-> FALSE, tok |-> Token(val, span),
              err |-> CalcrError("Invalid char", ch, <<lx1.pos, lx1.pos + 1>>),
              lx |-> lx1, overflow |-> FALSE]

lex_single_char(lx) ==
    LET ch   == to_lowercase(Head(lx.iter))
        lx1  == Lexer(lx.pos + 1, Tail(lx.iter))
        span == <<lx1.pos - 1, lx1.pos>>
        good == {"+", "-", "*", "/", "^", "!", "<sqrt>", "(", ")", "|"}
        val  == CASE ch = "+" -> TokOp("Plus")
                  [] ch = "-" -> TokOp("Minus")
                  [] ch = "*" -> TokOp("Mult")
                  [] ch = "/" -> TokOp("Div")
                  [] ch = "^" -> TokOp("Pow")
                  [] ch = "!" -> TokOp("Fact")
                  [] ch = "<sqrt>" -> TokName("sqrt")
                  [] ch = "(" -> ParenOpen
                  [] ch = ")" -> ParenClose
                  [] ch = "|" -> AbsDelim
                  [] OTHER -> TokName("")
    IN  IF ch \in good
        THEN [ok |-> TRUE, tok |-> Token(val, span), err |-> NoErr, lx |-> lx1,
              overflow |-> FALSE]
        ELSE [ok |-> FALSE, tok |-> Token(val, span),
              err |-> CalcrError("Invalid char", ch, span), lx |-> lx1,
              overflow |-> FALSE]

RECURSIVE LexLoop(_, _)
\* the loop of Lexer::lex_equation
LexLoop(lx0, out) ==
    LET lx == consume_whitespace(lx0)
    IN  IF lx.iter = <<>>
        THEN [ok |-> TRUE, toks |-> out, err |-> NoErr, overflow |-> FALSE]
        ELSE LET ch == Head(lx.iter)
                 r  == IF is_numeric(ch) THEN lex_number(lx)
                       ELSE IF is_alphabetic(ch) THEN lex_name(lx)
                       ELSE lex_single_char(lx)
             IN  IF r.ok THEN LexLoop(r.lx, Append(out, r.tok))
                 ELSE [ok |-> FALSE, toks |-> <<>>, err |-> r.err,
                       overflow |-> r.overflow]

\* lexer::lex_equation(eq)
lex_equation(eq) == LexLoop(Lexer(0, eq), <<>>)


-----------------------------------------------------------------------------
(* trees *)

AstFunc(f)    == [t |-> "Func", k |-> f, num |-> NoNum]
AstOp(op)     == [t |-> "Op", k |-> op, num |-> NoNum]
AstConst(c)   == [t |-> "Const", k |-> c, num |-> NoNum]
AstNum(num)   == [t |-> "Num", k |-> "", num |-> num]
AstLastResult == [t |-> "LastResult", k |-> "", num |-> NoNum]
AstName(name) == [t |-> "Name", k |-> name, num |-> NoNum]
AstParen      == [t |-> "Paren", k |-> "", num |-> NoNum]
Ast(val, span, branches) == [val |-> val, span |-> span, branches |-> branches]
NoAst == Ast(AstName(""), <<0, 0>>, <<>>)

Leaf          == <<>>
Unary(a)      == <<a>>
Binary(a, b)  == <<a, b>>

is_leaf(ast) == ast.branches = <<>>

Min2(a, b) == IF a < b THEN a ELSE b
Max2(a, b) == IF a > b THEN a ELSE b

RECURSIVE get_total_span(_)
\* get_total_span folding over the branches only, from the first branch's
\* total span instead of self.span
get_total_span_branches_only(ast) ==
    IF is_leaf(ast) THEN ast.span
    ELSE LET spans == [i \in 1..Len(ast.branches) |->
                          get_total_span(ast.branches[i])]
             fold[i \in 1..Len(spans)] ==
                 IF i = 1 THEN spans[1]
                 ELSE <<Min2(fold[i - 1][1], spans[i][1]),
                        Max2(fold[i - 1][2], spans[i][2])>>
         IN  fold[Len(spans)]

get_total_span(ast) ==
    IF is_leaf(ast) THEN ast.span
    ELSE LET spans == [i \in 1..Len(ast.branches) |->
                          get_total_span(ast.branches[i])]
             fold[i \in 0..Len(spans)] ==
                 IF i = 0 THEN ast.span
                 ELSE <<Min2(fold[i - 1][1], spans[i][1]),
                        Max2(fold[i - 1][2], spans[i][2])>>
         IN  fold[Len(spans)]

get_unary_branch(ast) ==
    IF Len(ast.branches) = 1
    THEN [ok |-> TRUE, a |-> ast.branches[1], err |-> NoErr]
    ELSE [ok |-> FALSE, a |-> NoAst,
          err |-> CalcrError("Internal error - expected AST to have 1 branch",
                             "", ast.span)]

get_binary_branches(ast) ==
    IF Len(ast.branches) = 2
    THEN [ok |-> TRUE, a |-> ast.branches[1], b |-> ast.branches[2],
          err |-> NoErr]
    ELSE [ok |-> FALSE, a |-> NoAst, b |-> NoAst,
          err |-> CalcrError("Internal error - expected AST to have 2 branches",
                             "", ast.span)]

-----------------------------------------------------------------------------
(* parser: the state is [iter, paren_level, abs_level, end_pos]; every
   parse_* returns [ok, ast, err, p] with p the parser after it *)

Funcs == {"sin", "cos", "tan", "asin", "acos", "atan", "sqrt", "abs", "exp",
          "ln", "log"}

FuncKind(name) == CASE name = "sin" -> "Sin" [] name = "cos" -> "Cos"
                    [] name = "tan" -> "Tan" [] name = "asin" -> "Asin"
                    [] name = "acos" -> "Acos" [] name = "atan" -> "Atan"
                    [] name = "sqrt" -> "Sqrt" [] name = "abs" -> "Abs"
                    [] name = "exp" -> "Exp" [] name = "ln" -> "Ln"
                    [] name = "log" -> "Log"

\* [some, val]: Option<AstVal>
get_builtin_name(name) ==
    IF name = "ans" THEN [some |-> TRUE, val |-> AstLastResult]
    ELSE IF name \in {"pi", "<pi>"} THEN [some |-> TRUE, val |-> AstConst("Pi")]
    ELSE IF name = "e" THEN [some |-> TRUE, val |-> AstConst("E")]
    ELSE IF name \in {"phi", "<phi>"} THEN [some |-> TRUE, val |-> AstConst("Phi")]
    ELSE IF name = "<sqrt>" THEN [some |-> TRUE, val |-> AstFunc("Sqrt")]
    ELSE IF name \in Funcs THEN [some |-> TRUE, val |-> AstFunc(FuncKind(name))]
    ELSE [some |-> FALSE, val |-> AstName(name)]

next_tok_is(p, val) == p.iter # <<>> /\ Head(p.iter).val = val
next_tok_is_op(p, ops) ==
    p.iter # <<>> /\ Head(p.iter).val.t = "Op" /\ Head(p.iter).val.k \in ops
toks_empty(p) == p.iter = <<>>
\* the parser after consume_tok; the token consumed is Head(p.iter)
consume_tok(p) == [p EXCEPT !.iter = Tail(p.iter)]

POk(ast, p)  == [ok |-> TRUE, ast |-> ast, err |-> NoErr, p |-> p]
PErr(err, p) == [ok |-> FALSE, ast |-> NoAst, err |-> err, p |-> p]

RECURSIVE parse_equation(_), parse_product(_), parse_factor(_)
RECURSIVE parse_exponent(_), parse_number(_)
RECURSIVE EquationLoop(_, _), ProductLoop(_, _), ExponentLoop(_, _)

\* FuncArg with the function's node built without its argument
FuncArgLeaf(val, tok_span, arg) ==
    IF ~arg.ok THEN arg
    ELSE POk(Ast(val, tok_span, Leaf), arg.p)

\* parse_number, a function name: after `let arg = try!(self.parse_equation())`
FuncArg(val, tok_span, arg) ==
    IF ~arg.ok THEN arg
    ELSE POk(Ast(val, tok_span, Unary(arg.ast)), arg.p)

\* CloseParen without `self.paren_level -= 1`
CloseParenKeepLevel(tok_span, eq) ==
    IF ~eq.ok THEN eq
    ELSE IF ~next_tok_is(eq.p, ParenClose)
    THEN PErr(CalcrError("Missing closing parentheses", "", tok_span), eq.p)
    ELSE LET p3 == eq.p
             close_paren_span == Head(p3.iter).span
         IN  POk(Ast(AstParen, <<tok_span[1], close_paren_span[2]>>,
                     Unary(eq.ast)), consume_tok(p3))

\* parse_number, ParenOpen: after `let eq = try!(self.parse_equation())`
CloseParen(tok_span, eq) ==
    IF ~eq.ok THEN eq
    ELSE IF ~next_tok_is(eq.p, ParenClose)
    THEN PErr(CalcrError("Missing closing parentheses", "", tok_span), eq.p)
    ELSE LET p3 == [eq.p EXCEPT !.paren_level = @ - 1]
             close_paren_span == Head(p3.iter).span
         IN  POk(Ast(AstParen, <<tok_span[1], close_paren_span[2]>>,
                     Unary(eq.ast)), consume_tok(p3))

\* parse_number, AbsDelim: after `let eq = try!(self.parse_equation())`
CloseAbs(tok_span, eq) ==
    IF ~eq.ok THEN eq
    ELSE IF ~next_tok_is(eq.p, AbsDelim)
    THEN PErr(CalcrError("Missing closing abs delimiter", "", tok_span), eq.p)
    ELSE LET p3 == [eq.p EXCEPT !.abs_level = @ - 1]
             close_delim_span == Head(p3.iter).span
         IN  POk(Ast(AstFunc("Abs"), <<tok_span[1], close_delim_span[2]>>,
                     Unary(eq.ast)), consume_tok(p3))

parse_number(p) ==
    IF toks_empty(p)
    THEN PErr(CalcrError("Expected number or constant", "",
                         <<p.end_pos, p.end_pos>>), p)
    ELSE
    LET tok      == Head(p.iter)
        tok_val  == tok.val
        tok_span == tok.span
        p1       == consume_tok(p)
    IN  CASE tok_val.t = "Name" ->
             LET b   == get_builtin_name(tok_val.k)
                 val == IF b.some THEN b.val ELSE AstName(tok_val.k)
             IN  IF val.t = "Func"
                 THEN IF next_tok_is(p1, ParenOpen)
                      THEN FuncArg(val, tok_span, parse_equation(p1))
                      ELSE PErr(CalcrError(
                               "Missing opening parentheses after function",
                               "", tok_span), p1)
                 ELSE POk(Ast(val, tok_span, Leaf), p1)
          [] tok_val.t = "ParenOpen" ->
             CloseParen(tok_span,
                        parse_equation([p1 EXCEPT !.paren_level = @ + 1]))
          [] tok_val.t = "AbsDelim" ->
             CloseAbs(tok_span,
                      parse_equation([p1 EXCEPT !.abs_level = @ + 1]))
          [] tok_val.t = "Num" ->
             POk(Ast(AstNum(tok_val.num), tok_span, Leaf), p1)
          [] OTHER ->
             PErr(CalcrError("Expected number or constant", "", tok_span), p1)

\* the while loop of parse_exponent
ExponentLoop(out, p) ==
    IF next_tok_is(p, TokOp("Fact"))
    THEN ExponentLoop(Ast(AstOp("Fact"), Head(p.iter).span, Unary(out)),
                      consume_tok(p))
    ELSE POk(out, p)

\* parse_exponent after `let mut out = try!(self.parse_number())`
ExponentOf(out) == IF ~out.ok THEN out ELSE ExponentLoop(out.ast, out.p)

parse_exponent(p) == ExponentOf(parse_number(p))

\* parse_factor, Minus: after `let rhs = try!(self.parse_factor())`
NegOf(tok_span, rhs) ==
    IF ~rhs.ok THEN rhs
    ELSE POk(Ast(AstOp("Neg"), tok_span, Unary(rhs.ast)), rhs.p)

\* parse_factor, Pow: after `let rhs = try!(self.parse_factor())`
PowOf(lhs, tok_span, rhs) ==
    IF ~rhs.ok THEN rhs
    ELSE POk(Ast(AstOp("Pow"), tok_span, Binary(lhs, rhs.ast)), rhs.p)

\* FactorOf with the right operand of "^" read by parse_exponent: a chain of
\* "^" no longer nests to the right
FactorOfFlat(lhs) ==
    IF ~lhs.ok THEN lhs
    ELSE IF next_tok_is(lhs.p, TokOp("Pow"))
    THEN PowOf(lhs.ast, Head(lhs.p.iter).span,
               parse_exponent(consume_tok(lhs.p)))
    ELSE lhs

\* parse_factor after `let lhs = try!(self.parse_exponent())`
FactorOf(lhs) ==
    IF ~lhs.ok THEN lhs
    ELSE IF next_tok_is(lhs.p, TokOp("Pow"))
    THEN PowOf(lhs.ast, Head(lhs.p.iter).span,
               parse_factor(consume_tok(lhs.p)))
    ELSE lhs

\* parse_factor with the operand of a leading "-" read by parse_exponent:
\* the Neg no longer covers the "^" after it
parse_factor_neg_exponent(p) ==
    IF next_tok_is(p, TokOp("Minus"))
    THEN NegOf(Head(p.iter).span, parse_exponent(consume_tok(p)))
    ELSE FactorOf(parse_exponent(p))

parse_factor(p) ==
    IF next_tok_is(p, TokOp("Minus"))
    THEN NegOf(Head(p.iter).span, parse_factor(consume_tok(p)))
    ELSE FactorOf(parse_exponent(p))

\* BinaryOf with the node's span running from its left operand to its right
BinaryOfCombinedSpan(lhs, tok, rhs) ==
    Ast(AstOp(tok.val.k), <<lhs.span[1], rhs.ast.span[2]>>,
        Binary(lhs, rhs.ast))

\* the body of a binary loop after `let rhs = try!(...)`: the new lhs
BinaryOf(lhs, tok, rhs) ==
    Ast(AstOp(tok.val.k), tok.span, Binary(lhs, rhs.ast))

\* the body of parse_product's while loop, from its rhs on
ProductStep(lhs, tok, rhs) ==
    IF ~rhs.ok THEN rhs ELSE ProductLoop(BinaryOf(lhs, tok, rhs), rhs.p)

\* the while loop of parse_product
ProductLoop(lhs, p) ==
    IF next_tok_is_op(p, {"Mult", "Div"})
    THEN ProductStep(lhs, Head(p.iter), parse_factor(consume_tok(p)))
    ELSE POk(lhs, p)

\* parse_product after `let mut lhs = try!(self.parse_factor())`
ProductOf(lhs) == IF ~lhs.ok THEN lhs ELSE ProductLoop(lhs.ast, lhs.p)

parse_product(p) == ProductOf(parse_factor(p))

\* the body of parse_equation's while loop, from its rhs on
EquationStep(lhs, tok, rhs) ==
    IF ~rhs.ok THEN rhs ELSE EquationLoop(BinaryOf(lhs, tok, rhs), rhs.p)

\* EquationLoop with the right operand read by parse_factor: "*" and "/"
\* after it no longer bind tighter
EquationLoopNoProduct(lhs, p) ==
    IF next_tok_is_op(p, {"Plus", "Minus"})
    THEN EquationStep(lhs, Head(p.iter), parse_factor(consume_tok(p)))
    ELSE POk(lhs, p)

\* the while loop of parse_equation
EquationLoop(lhs, p) ==
    IF next_tok_is_op(p, {"Plus", "Minus"})
    THEN EquationStep(lhs, Head(p.iter), parse_product(consume_tok(p)))
    ELSE POk(lhs, p)

\* parse_equation after `let mut lhs = try!(self.parse_product())`
EquationOf(lhs) == IF ~lhs.ok THEN lhs ELSE EquationLoop(lhs.ast, lhs.p)

\* parse_equation after its while loop
EquationEnd(lhs) ==
    IF ~lhs.ok THEN lhs
    ELSE IF next_tok_is(lhs.p, ParenClose) /\ lhs.p.paren_level < 1
    THEN PErr(CalcrError("Missing opening parentheses", "",
                         Head(lhs.p.iter).span), consume_tok(lhs.p))
    ELSE IF next_tok_is(lhs.p, AbsDelim) /\ lhs.p.abs_level < 1
    THEN PErr(CalcrError("Missing opening abs delimiter", "",
                         Head(lhs.p.iter).span), consume_tok(lhs.p))
    ELSE lhs

parse_equation(p) == EquationEnd(EquationOf(parse_product(p)))

\* parse_expression, `let`: after `let eq = try!(self.parse_equation())`
AssignOf(name_tok, assign_tok, eq) ==
    IF ~eq.ok THEN eq
    ELSE POk(Ast(AstOp("Assign"), assign_tok.span,
                 Binary(Ast(AstName(name_tok.val.k), name_tok.span, Leaf),
                        eq.ast)), eq.p)

parse_expression(p) ==
    IF next_tok_is(p, TokKeyword("Let"))
    THEN LET p1 == consume_tok(p)
         IN  IF ~toks_empty(p1)
             THEN LET tok      == Head(p1.iter)
                      tok_span == tok.span
                      p2       == consume_tok(p1)
                  IN  IF tok.val.t = "Name" /\ ~get_builtin_name(tok.val.k).some
                      THEN IF next_tok_is(p2, TokOp("Assign"))
                           THEN AssignOf(tok, Head(p2.iter),
                                         parse_equation(consume_tok(p2)))
                           ELSE PErr(CalcrError(
                                   "Expected assignment operator '=' after name",
                                   "", tok_span), p2)
                      ELSE IF tok.val.t = "Name"
                      THEN PErr(CalcrError("Cannot assign to builtin name",
                                           tok.val.k, tok_span), p2)
                      ELSE PErr(CalcrError("Expected name to assign to", "",
                                           tok_span), p2)
             ELSE PErr(CalcrError("Expected name to assign to", "",
                                  <<p1.end_pos, p1.end_pos>>), p1)
    ELSE parse_equation(p)

\* Parser with end_pos left at the start of the input
ParserEndPosZero(tokens) ==
    [iter |-> tokens, paren_level |-> 0, abs_level |-> 0, end_pos |-> 0]

Parser(tokens) ==
    [iter |-> tokens, paren_level |-> 0, abs_level |-> 0,
     end_pos |-> IF tokens = <<>> THEN 0 ELSE tokens[Len(tokens)].span[2]]

\* parser::parse_tokens(tokens)
parse_tokens(tokens) == parse_expression(Parser(tokens))


-----------------------------------------------------------------------------
(* interpreter: self is [vars, last_result]; an evaluation returns
   [st, val, err] with st "ok", "err", or "unmodelled" when a double
   outside the model was computed and "hang" when the evaluation never
   returns *)

EOk(v)      == [st |-> "ok", val |-> v, err |-> NoErr]
EErr(err)   == [st |-> "err", val |-> NaN, err |-> err]
EUnmodelled == [st |-> "unmodelled", val |-> Inexact, err |-> NoErr]
\* the evaluation never returns
EHang       == [st |-> "hang", val |-> NaN, err |-> NoErr]
Ret(v)      == IF v.k = "inexact" THEN EUnmodelled ELSE EOk(v)

Interpreter(vars_, last_result_) ==
    [vars |-> vars_, last_result |-> last_result_]

\* Interpreter::new()
NewInterpreter == Interpreter(<<>>, Fin(FALSE, 0))

eval_const(c) == EOk(CASE c = "Pi" -> NamedConst("pi")
                       [] c = "E" -> NamedConst("e")
                       [] c = "Phi" -> NamedConst("phi"))

RECURSIVE FactLoop(_, _)
\* while num > 0.0 { out *= num; num -= 1.0 }, where num -= 1.0 changes num
FactLoop(out, num) ==
    IF out.k = "inexact" THEN Inexact
    ELSE IF GtZero(num) THEN FactLoop(FMul(out, num), MinusOne(num))
    ELSE out

\* evalf_fact with `num > 0.0` for `num >= 0.0`
evalf_fact_positive(num, child) ==
    IF IsFuncOf(num) THEN EUnmodelled
    ELSE IF FractIsZero(num) /\ GtZero(num)
    THEN IF MinusOne(num) = num THEN EHang
         ELSE Ret(FactLoop(Whole(1), num))
    ELSE EErr(CalcrError(
             "The factorial function only accepts positive whole numbers",
             "", get_total_span(child)))

evalf_fact(num, child) ==
    IF IsFuncOf(num) THEN EUnmodelled
    ELSE IF FractIsZero(num) /\ GeZero(num)
    THEN IF GtZero(num) /\ MinusOne(num) = num THEN EHang
         ELSE Ret(FactLoop(Whole(1), num))
    ELSE EErr(CalcrError(
             "The factorial function only accepts positive whole numbers",
             "", get_total_span(child)))

RECURSIVE eval_eq(_, _)

\* eval_func with `arg <= 0.0` for `arg < 0.0` in the Sqrt arm
eval_func_sqrt_le(self, f, ast) ==
    LET br == get_unary_branch(ast)
    IN  IF ~br.ok THEN EErr(br.err)
        ELSE
        LET child == br.a
            a     == eval_eq(self, child)
            arg   == a.val
        IN  IF a.st # "ok" THEN a
            ELSE IF IsFuncOf(arg) THEN EUnmodelled
            ELSE IF f = "Sqrt"
            THEN IF LeZero(arg)
                 THEN EErr(CalcrError(
                          "Cannot take the square root of a negative number",
                          "", get_total_span(child)))
                 ELSE Ret(FSqrt(arg))
            ELSE IF f = "Ln"
            THEN IF LeZero(arg)
                 THEN EErr(CalcrError(
                          "Cannot take the logarithm of a non-positive number",
                          "", get_total_span(child)))
                 ELSE Ret(FLn(arg))
            ELSE IF f = "Log"
            THEN IF LeZero(arg)
                 THEN EErr(CalcrError(
                          "Cannot take the logarithm of a non-positive number",
                          "", get_total_span(child)))
                 ELSE Ret(FLog10(arg))
            ELSE IF f = "Abs" THEN Ret(FAbs(arg))
            ELSE Ret(FTrig(f, arg))

eval_func(self, f, ast) ==
    LET br == get_unary_branch(ast)
    IN  IF ~br.ok THEN EErr(br.err)
        ELSE
        LET child == br.a
            a     == eval_eq(self, child)
            arg   == a.val
        IN  IF a.st # "ok" THEN a
            ELSE IF IsFuncOf(arg) THEN EUnmodelled
            ELSE IF f = "Sqrt"
            THEN IF LtZero(arg)
                 THEN EErr(CalcrError(
                          "Cannot take the square root of a negative number",
                          "", get_total_span(child)))
                 ELSE Ret(FSqrt(arg))
            ELSE IF f = "Ln"
            THEN IF LeZero(arg)
                 THEN EErr(CalcrError(
                          "Cannot take the logarithm of a non-positive number",
                          "", get_total_span(child)))
                 ELSE Ret(FLn(arg))
            ELSE IF f = "Log"
            THEN IF LeZero(arg)
                 THEN EErr(CalcrError(
                          "Cannot take the logarithm of a non-positive number",
                          "", get_total_span(child)))
                 ELSE Ret(FLog10(arg))
            ELSE IF f = "Abs" THEN Ret(FAbs(arg))
            ELSE Ret(FTrig(f, arg))

\* eval_op with the right operand's error looked at before the left one's
eval_op_right_first(self, op, ast) ==
    IF Len(ast.branches) = 2
    THEN LET br  == get_binary_branches(ast)
             lhs == eval_eq(self, br.a)
             rhs == eval_eq(self, br.b)
         IN  IF rhs.st # "ok" THEN rhs
             ELSE IF lhs.st # "ok" THEN lhs
             ELSE CASE op = "Plus"  -> Ret(FAdd(lhs.val, rhs.val))
                    [] op = "Minus" -> Ret(FSub(lhs.val, rhs.val))
                    [] op = "Mult"  -> Ret(FMul(lhs.val, rhs.val))
                    [] op = "Div"   -> Ret(FDiv(lhs.val, rhs.val))
                    [] op = "Pow"   -> Ret(FPow(lhs.val, rhs.val))
                    [] OTHER -> EErr(CalcrError(
                        "Internal error - expected AstOp to have binary branch",
                        "", NoSpan))
    ELSE IF Len(ast.branches) = 1
    THEN LET child == get_unary_branch(ast).a
             val   == eval_eq(self, child)
         IN  IF val.st # "ok" THEN val
             ELSE CASE op = "Neg"  -> Ret(FNeg(val.val))
                    [] op = "Fact" -> evalf_fact(val.val, child)
                    [] OTHER -> EErr(CalcrError(
                        "Internal error - expected AstOp to have unary branch",
                        "", NoSpan))
    ELSE EErr(CalcrError(
             "Internal error - AstOp nodes must have 1 or 2 branches",
             "", NoSpan))

eval_op(self, op, ast) ==
    IF Len(ast.branches) = 2
    THEN LET br  == get_binary_branches(ast)
             lhs == eval_eq(self, br.a)
             rhs == eval_eq(self, br.b)
         IN  IF lhs.st # "ok" THEN lhs
             ELSE IF rhs.st # "ok" THEN rhs
             ELSE CASE op = "Plus"  -> Ret(FAdd(lhs.val, rhs.val))
                    [] op = "Minus" -> Ret(FSub(lhs.val, rhs.val))
                    [] op = "Mult"  -> Ret(FMul(lhs.val, rhs.val))
                    [] op = "Div"   -> Ret(FDiv(lhs.val, rhs.val))
                    [] op = "Pow"   -> Ret(FPow(lhs.val, rhs.val))
                    [] OTHER -> EErr(CalcrError(
                        "Internal error - expected AstOp to have binary branch",
                        "", NoSpan))
    ELSE IF Len(ast.branches) = 1
    THEN LET child == get_unary_branch(ast).a
             val   == eval_eq(self, child)
         IN  IF val.st # "ok" THEN val
             ELSE CASE op = "Neg"  -> Ret(FNeg(val.val))
                    [] op = "Fact" -> evalf_fact(val.val, child)
                    [] OTHER -> EErr(CalcrError(
                        "Internal error - expected AstOp to have unary branch",
                        "", NoSpan))
    ELSE EErr(CalcrError(
             "Internal error - AstOp nodes must have 1 or 2 branches",
             "", NoSpan))

\* eval_eq with the unknown name's error left without the node's span
eval_eq_name_unspanned(self, ast) ==
    CASE ast.val.t = "Func"  -> eval_func(self, ast.val.k, ast)
      [] ast.val.t = "Op"    -> eval_op(self, ast.val.k, ast)
      [] ast.val.t = "Const" -> eval_const(ast.val.k)
      [] ast.val.t = "Num"   -> Ret(ast.val.num)
      [] ast.val.t = "LastResult" -> EOk(self.last_result)
      [] ast.val.t = "Name"  ->
         IF ast.val.k \in DOMAIN self.vars
         THEN EOk(self.vars[ast.val.k])
         ELSE EErr(CalcrError("Invalid function or constant", ast.val.k,
                              NoSpan))
      [] ast.val.t = "Paren" ->
         IF Len(ast.branches) = 1
         THEN eval_eq(self, ast.branches[1])
         ELSE EErr(CalcrError(
                  "Internal error - expected Paren to have unary branch",
                  "", NoSpan))

eval_eq(self, ast) ==
    CASE ast.val.t = "Func"  -> eval_func(self, ast.val.k, ast)
      [] ast.val.t = "Op"    -> eval_op(self, ast.val.k, ast)
      [] ast.val.t = "Const" -> eval_const(ast.val.k)
      [] ast.val.t = "Num"   -> Ret(ast.val.num)
      [] ast.val.t = "LastResult" -> EOk(self.last_result)
      [] ast.val.t = "Name"  ->
         IF ast.val.k \in DOMAIN self.vars
         THEN EOk(self.vars[ast.val.k])
         ELSE EErr(CalcrError("Invalid function or constant", ast.val.k,
                              get_total_span(ast)))
      [] ast.val.t = "Paren" ->
         IF Len(ast.branches) = 1
         THEN eval_eq(self, ast.branches[1])
         ELSE EErr(CalcrError(
                  "Internal error - expected Paren to have unary branch",
                  "", NoSpan))

\* CalcrResult<Option<f64>> and the interpreter after the call:
\* [st, some, val, err, self]
XOk(some, v, self) ==
    [st |-> "ok", some |-> some, val |-> v, err |-> NoErr, self |-> self]
XFail(st, err, self) ==
    [st |-> st, some |-> FALSE, val |-> NaN, err |-> err, self |-> self]

\* eval_expr with the name bound (to 0.0) before its right-hand side is
\* evaluated
eval_expr_bind_first(self, ast) ==
    IF ast.val = AstOp("Assign")
    THEN LET br == get_binary_branches(ast)
         IN  IF ~br.ok THEN XFail("err", br.err, self)
             ELSE IF br.a.val.t = "Name"
             THEN LET val == eval_eq(self, br.b)
                  IN  IF val.st # "ok"
                      THEN XFail(val.st, val.err,
                                 [self EXCEPT !.vars =
                                     (br.a.val.k :> Fin(FALSE, 0)) @@ self.vars])
                      ELSE XOk(FALSE, NaN,
                               [self EXCEPT !.vars =
                                   (br.a.val.k :> val.val) @@ self.vars])
             ELSE XFail("err", CalcrError(
                     "Interal error - expected Assign to have Name in left branch",
                     "", NoSpan), self)
    ELSE LET val == eval_eq(self, ast)
         IN  IF val.st # "ok" THEN XFail(val.st, val.err, self)
             ELSE XOk(TRUE, val.val, self)

\* eval_expr with an assignment returning Some(value) like any expression
eval_expr_assign_some(self, ast) ==
    IF ast.val = AstOp("Assign")
    THEN LET br == get_binary_branches(ast)
         IN  IF ~br.ok THEN XFail("err", br.err, self)
             ELSE IF br.a.val.t = "Name"
             THEN LET val == eval_eq(self, br.b)
                  IN  IF val.st # "ok" THEN XFail(val.st, val.err, self)
                      ELSE XOk(TRUE, val.val,
                               [self EXCEPT !.vars =
                                   (br.a.val.k :> val.val) @@ self.vars])
             ELSE XFail("err", CalcrError(
                     "Interal error - expected Assign to have Name in left branch",
                     "", NoSpan), self)
    ELSE LET val == eval_eq(self, ast)
         IN  IF val.st # "ok" THEN XFail(val.st, val.err, self)
             ELSE XOk(TRUE, val.val, self)

eval_expr(self, ast) ==
    IF ast.val = AstOp("Assign")
    THEN LET br == get_binary_branches(ast)
         IN  IF ~br.ok THEN XFail("err", br.err, self)
             ELSE IF br.a.val.t = "Name"
             THEN LET val == eval_eq(self, br.b)
                  IN  IF val.st # "ok" THEN XFail(val.st, val.err, self)
                      ELSE XOk(FALSE, NaN,
                               [self EXCEPT !.vars =
                                   (br.a.val.k :> val.val) @@ self.vars])
             ELSE XFail("err", CalcrError(
                     "Interal error - expected Assign to have Name in left branch",
                     "", NoSpan), self)
    ELSE LET val == eval_eq(self, ast)
         IN  IF val.st # "ok" THEN XFail(val.st, val.err, self)
             ELSE XOk(TRUE, val.val, self)

\* eval_tokens without `self.last_result = val`
eval_tokens_no_store(self, toks_) ==
    LET ast    == parse_tokens(toks_)
        result == eval_expr(self, ast.ast)
    IN  IF ~ast.ok THEN XFail("err", ast.err, self) ELSE result

\* Interpreter::eval_expression from the parse on: lines 27-33
eval_tokens(self, toks_) ==
    LET ast    == parse_tokens(toks_)
        result == eval_expr(self, ast.ast)
    IN  IF ~ast.ok THEN XFail("err", ast.err, self)
        ELSE IF result.st = "ok" /\ result.some
        THEN [result EXCEPT !.self.last_result = result.val]
        ELSE result

\* Interpreter::eval_expression(expr)
eval_expression(self, expr_) ==
    LET lexed == lex_equation(expr_)
    IN  IF ~lexed.ok THEN XFail("err", lexed.err, self)
        ELSE eval_tokens(self, lexed.toks)


-----------------------------------------------------------------------------
(* the texts and token vectors submitted *)

RECURSIVE Cat(_)
\* the concatenation of the texts ws
Cat(ws) == IF ws = <<>> THEN <<>> ELSE Head(ws) \o Cat(Tail(ws))

Atoms      == {<<"0">>, <<"1">>, <<"2">>, <<"3">>, <<"4">>, <<"3", ".", "5">>,
               <<"x">>}
SmallAtoms == {<<"1">>, <<"2">>, <<"4">>}
BinOps     == {<<"+">>, <<"-">>, <<"*">>, <<"/">>, <<"^">>}
FuncNames  == {<<"s", "i", "n">>, <<"s", "q", "r", "t">>, <<"l", "n">>,
               <<"l", "o", "g">>, <<"a", "b", "s">>}

\* one operator or one function application over atoms
Level1 ==
    Atoms
    \cup {Cat(<<a, o, b>>) : a \in Atoms, o \in BinOps, b \in Atoms}
    \cup {Cat(<<f, <<"(">>, a, <<")">> >>) : f \in FuncNames, a \in Atoms}
    \cup {Cat(<<<<"(">>, a, <<")">> >>) : a \in Atoms}
    \cup {Cat(<<<<"|">>, a, <<"|">> >>) : a \in Atoms}
    \cup {Cat(<<<<"-">>, a>>) : a \in Atoms}
    \cup {Cat(<<a, <<"!">> >>) : a \in Atoms}

\* one more operator or function application around a Level1 text
Level2 ==
    {Cat(<<u, o, a>>) : u \in Level1, o \in BinOps, a \in SmallAtoms}
    \cup {Cat(<<a, o, u>>) : a \in SmallAtoms, o \in BinOps, u \in Level1}
    \cup {Cat(<<f, <<"(">>, u, <<")">> >>) : f \in FuncNames, u \in Level1}
    \cup {Cat(<<<<"(">>, u, <<")">>, <<"!">> >>) : u \in Level1}
    \cup {Cat(<<u, <<"!">> >>) : u \in Level1}
    \cup {Cat(<<<<"-">>, u>>) : u \in Level1}

\* the words free-form texts are made of
Words == {<<"1">>, <<"0">>, <<"x">>, <<"a", "n", "s">>, <<"s", "q", "r", "t">>,
          <<"+">>, <<"-">>, <<"!">>, <<"(">>, <<")">>, <<"|">>, <<"=">>,
          <<" ">>, <<"?">>, <<".">>}

RECURSIVE FreeForm(_)
\* every text of at most n words
FreeForm(n) ==
    IF n = 0 THEN {<<>>}
    ELSE LET shorter == FreeForm(n - 1)
         IN  shorter \cup {w \o t : w \in Words, t \in shorter}

\* the longest free-form text, in words
MaxWords == 3

RECURSIVE TextsOf(_, _)
\* every text of at most n of the words ws
TextsOf(ws, n) ==
    IF n = 0 THEN {<<>>}
    ELSE LET shorter == TextsOf(ws, n - 1)
         IN  shorter \cup {w \o t : w \in ws, t \in shorter}

\* texts with the characters that take more than one byte
UnicodeWords == {<<"<pi>">>, <<"<phi>">>, <<"<sqrt>">>, <<"<half>">>,
                 <<"1">>, <<"e">>, <<"(", "1", ")">>, <<"+">>, <<" ">>}

\* texts of symbol characters
SymbolWords == {<<"+">>, <<"-">>, <<"*">>, <<"/">>, <<"^">>, <<"!">>,
                <<"(">>, <<")">>, <<"[">>, <<"]">>, <<"{">>, <<"}">>, <<"|">>}

\* texts of groups, opened, closed or neither
DelimWords == {<<"1">>, <<"+">>, <<"(">>, <<")">>, <<"|">>, <<"[">>, <<"]">>,
               <<"(", "1">>, <<"1", ")">>, <<"|", "1">>, <<"1", "|">>,
               <<"(", "1", ")">>, <<"|", "1", "|">>}

\* 10^16 and its factorial
BigInputs ==
    LET TenTo16 == <<"1", "0", "0", "0", "0", "0", "0", "0", "0", "0", "0",
                     "0", "0", "0", "0", "0", "0">>
    IN  {TenTo16, TenTo16 \o <<"!">>, <<"-">> \o TenTo16 \o <<"!">>,
         <<"(", "-">> \o TenTo16 \o <<")", "!">>}

\* runs of minus signs
MinusInputs == {<<"3", "-", "-", "2">>, <<"-", "-", "2">>,
                <<"2", "^", "-", "-", "1">>, <<"3", "-", "-", "-", "2">>}

\* two operands with no operator between them
JuxtaposedInputs == {<<"2", " ", "3">>, <<"2", " ", "(", "3", ")">>}

ExprInputs ==
    Level1 \cup Level2 \cup FreeForm(MaxWords) \cup BigInputs
    \cup MinusInputs \cup JuxtaposedInputs
    \cup TextsOf(UnicodeWords, MaxWords)
    \cup TextsOf(SymbolWords, MaxWords)
    \cup TextsOf(DelimWords, MaxWords)

\* the texts submitted to a session
SessionInputs ==
    { <<"x", " ", "=", " ", "5">>, <<"x", " ", "+", " ", "1">>,
      <<"3", " ", "*", " ", "2">>, <<"a", "n", "s", " ", "*", " ", "1", "0">>,
      <<"l", "e", "t", " ", "x", " ", "=", " ", "5">>,
      <<"a", "n", "s">>, <<"x">>, <<"y">>, <<"a", "n", "s", "+", "x">>,
      <<"2", "+", "3", "*", "4">>, <<"0", "-", "a", "n", "s">>,
      <<"a", "n", "s", "/", "2">>, <<"1", "/", "a", "n", "s">>,
      <<"s", "q", "r", "t", "(", "a", "n", "s", ")">>,
      <<"l", "n", "(", "a", "n", "s", ")">>, <<"a", "n", "s", "!">>,
      <<"s", "q", "r", "t", "(", "-", "1", ")">>,
      <<"(", "a", "n", "s">>, <<"a", "n", "s", ")">>, <<"a", "n", "s", "?">>,
      <<"1", ".", ".", "2">>, <<>>, <<"x", "*", "y">>, <<"5">>,
      <<"<half>">>, <<"<pi>">> }

\* a token vector with the spans of one-character tokens one space apart
Toks(vals) == [i \in 1..Len(vals) |-> Token(vals[i], <<2 * (i - 1), 2 * i - 1>>)]

LetToks(target, rhs) == Toks(<<TokKeyword("Let"), target, TokOp("Assign")>> \o rhs)

AssignTargets == {TokName("x"), TokName("y"), TokName("ans"), TokName("pi"),
                  TokName("sqrt"), TokNum(Whole(5))}
AssignValues  ==
    { <<TokNum(Whole(5))>>, <<TokNum(Whole(7))>>, <<TokName("ans")>>,
      <<TokName("x"), TokOp("Plus"), TokNum(Whole(1))>>,
      <<TokName("y")>>,
      <<TokName("sqrt"), ParenOpen, TokOp("Minus"), TokNum(Whole(1)),
        ParenClose>>,
      <<TokNum(Whole(1)), TokOp("Div"), TokNum(Whole(0))>>,
      <<ParenOpen, TokNum(Whole(2))>>, <<>> }

\* the token vectors handed to the parser directly
TokenInputs ==
    {LetToks(t, v) : t \in AssignTargets, v \in AssignValues}
    \cup { Toks(<<TokKeyword("Let")>>),
           Toks(<<TokKeyword("Let"), TokName("x")>>),
           Toks(<<TokKeyword("Let"), TokName("x"), TokNum(Whole(5))>>),
           Toks(<<TokName("x"), TokOp("Assign"), TokNum(Whole(5))>>),
           Toks(<<TokName("x"), TokOp("Plus"), TokName("y")>>),
           Toks(<<TokName("x"), TokOp("Fact")>>),
           Toks(<<TokOp("Minus"), TokName("y")>>),
           Toks(<<TokKeyword("Let"), TokName("x"), TokOp("Plus"),
                  TokNum(Whole(1)), TokOp("Assign"), TokNum(Whole(5))>>),
           Toks(<<TokKeyword("Let"), TokName("sqrt"), ParenOpen,
                  TokNum(Whole(4)), ParenClose, TokOp("Assign"),
                  TokNum(Whole(5))>>),
           Toks(<<TokNum(Whole(5)), TokOp("Assign"), TokNum(Whole(3))>>) }

-----------------------------------------------------------------------------
(* the line editor of the prompt *)

\* the characters a key can type, each with its `len_utf8()` and its
\* `width()`: a letter, a CJK ideograph two columns wide, and a combining
\* accent of no width
KeyChars == {[c |-> "a", len |-> 1, width |-> 1],
             [c |-> "U+4E16", len |-> 3, width |-> 2],
             [c |-> "U+0301", len |-> 2, width |-> 0]}

\* the keys poll_keypress returns; Insert stands for the keys handle_input
\* ignores.  A String is the sequence of its bytes, each the at-th byte of
\* its character: the first is a lead byte, the others are continuations.
Keys ==
    {[k |-> "Char", ch |-> c] : c \in KeyChars} \cup
    {[k |-> n, ch |-> [c |-> "", len |-> 0, width |-> 0]] :
        n \in {"Esc", "Enter", "Backspace", "Delete", "Up", "Down", "Right",
               "Left", "Home", "End", "Insert"}}

\* PosixInputHandler::new
PosixInputHandler ==
    [line_hist |-> <<>>, line_buf |-> << <<>> >>, line_idx |-> 0,
     line_byte_pos |-> 0, cursor_pos |-> 0]

\* String::width of a line: the widths of its characters summed
RECURSIVE line_column_len(_)
line_column_len(s) ==
    IF s = <<>> THEN 0
    ELSE (IF Head(s).at = 1 THEN Head(s).ch.width ELSE 0)
         + line_column_len(Tail(s))

\* String::insert(idx, ch): panics unless idx is on a character boundary
StringInsert(s, idx, ch) ==
    LET boundary == idx = 0 \/ idx = Len(s)
                    \/ (idx < Len(s) /\ s[idx + 1].at = 1)
        bytes == [i \in 1..ch.len |-> [ch |-> ch, at |-> i]]
    IN  IF ~boundary THEN [panic |-> TRUE, s |-> s]
        ELSE [panic |-> FALSE,
              s |-> SubSeq(s, 1, idx) \o bytes \o SubSeq(s, idx + 1, Len(s))]

\* String::remove(idx): panics unless a character starts at idx
StringRemove(s, idx) ==
    IF ~(idx < Len(s) /\ s[idx + 1].at = 1) THEN [panic |-> TRUE, s |-> s]
    ELSE [panic |-> FALSE,
          s |-> SubSeq(s, 1, idx)
                \o SubSeq(s, idx + s[idx + 1].ch.len + 1, Len(s))]

\* to_next_char on the line s from the byte position start: the position
\* after the loop and the character of s[start..pos]; the slice panics
\* past the end of the line and off a character boundary
to_next_char(s, start) ==
    LET none == [c |-> "", len |-> 0, width |-> 0]
        last == IF start + 1 > Len(s) THEN start + 1 ELSE Len(s)
        stops == {p \in (start + 1)..last : p >= Len(s) \/ s[p + 1].at = 1}
        pos == CHOOSE p \in stops : \A q \in stops : p <= q
    IN  IF pos > Len(s) \/ s[start + 1].at # 1
        THEN [panic |-> TRUE, pos |-> pos, ch |-> none]
        ELSE [panic |-> FALSE, pos |-> pos, ch |-> s[start + 1].ch]

\* to_prev_char on the line s from the byte position end: `end - 1` below
\* zero panics where overflow is checked and indexes far outside the line
\* where it is not; line_byte_at panics outside the line and the slice
\* s[pos..end] off a character boundary
to_prev_char(s, end) ==
    LET none == [c |-> "", len |-> 0, width |-> 0]
        leads == {p \in 0..(end - 1) : p < Len(s) /\ s[p + 1].at = 1}
        pos == CHOOSE p \in leads : \A q \in leads : q <= p
    IN  IF end = 0 \/ end > Len(s) \/ leads = {}
           \/ (end < Len(s) /\ s[end + 1].at # 1)
        THEN [panic |-> TRUE, pos |-> end, ch |-> none]
        ELSE [panic |-> FALSE, pos |-> pos, ch |-> s[pos + 1].ch]

\* PosixInputHandler::handle_input on the key poll_keypress returned: the
\* handler afterwards, the InputCmd returned, whether a call in it panics,
\* and whether the arithmetic on cursor_pos left the range of usize,
\* which panics where overflow is checked and wraps where it is not
handle_input(self, key) ==
    LET line == self.line_buf[self.line_idx + 1]
        quit == [i \in 1..4 |->
                    [ch |-> [c |-> <<"q", "u", "i", "t">>[i], len |-> 1,
                             width |-> 1], at |-> 1]]
        Done(h, out) == [self |-> h, out |-> out, panic |-> FALSE,
                         overflow |-> FALSE]
        Fail == [self |-> self, out |-> "None", panic |-> TRUE,
                  overflow |-> FALSE]
        Sub(h, n) == [self |-> [h EXCEPT !.cursor_pos = wrapping_sub(@, n)],
                      out |-> "None", panic |-> FALSE,
                      overflow |-> h.cursor_pos < n]
        Add(h, n) == [self |-> [h EXCEPT
                                  !.cursor_pos = (@ + n) % UsizeModulus],
                      out |-> "None", panic |-> FALSE,
                      overflow |-> h.cursor_pos + n >= UsizeModulus]
    IN  CASE key.k = "Esc" -> Done(self, "Quit")
          [] key.k = "Enter" ->
                IF line = quit THEN Done(self, "Quit")
                ELSE LET hist == Append(self.line_hist, line)
                     IN  Done([self EXCEPT !.line_hist = hist,
                                          !.line_buf = Append(hist, <<>>),
                                          !.line_idx = Len(hist),
                                          !.line_byte_pos = 0,
                                          !.cursor_pos = 0], "Equation")
          [] key.k = "Backspace" ->
                IF self.line_byte_pos > 0
                THEN LET prev == to_prev_char(line, self.line_byte_pos)
                         rem  == StringRemove(line, prev.pos)
                     IN  IF prev.panic \/ rem.panic THEN Fail
                         ELSE Sub([self EXCEPT
                                     !.line_byte_pos = prev.pos,
                                     !.line_buf[self.line_idx + 1] = rem.s],
                                  1)
                ELSE Done(self, "None")
          [] key.k = "Delete" ->
                IF self.line_byte_pos < Len(line)
                THEN LET rem == StringRemove(line, self.line_byte_pos)
                     IN  IF rem.panic THEN Fail
                         ELSE Done([self EXCEPT
                                     !.line_buf[self.line_idx + 1] = rem.s],
                                  "None")
                ELSE Done(self, "None")
          [] key.k = "Up" ->
                IF self.line_idx > 0
                THEN LET to == self.line_buf[self.line_idx]
                     IN  Done([self EXCEPT !.line_idx = @ - 1,
                                          !.line_byte_pos = Len(to),
                                          !.cursor_pos = line_column_len(to)],
                             "None")
                ELSE Done(self, "None")
          [] key.k = "Down" ->
                IF self.line_idx < Len(self.line_buf) - 1
                THEN LET to == self.line_buf[self.line_idx + 2]
                     IN  Done([self EXCEPT !.line_idx = @ + 1,
                                          !.line_byte_pos = Len(to),
                                          !.cursor_pos = line_column_len(to)],
                             "None")
                ELSE Done(self, "None")
          [] key.k = "Right" ->
                IF self.cursor_pos < line_column_len(line)
                THEN LET next == to_next_char(line, self.line_byte_pos)
                     IN  IF next.panic THEN Fail
                         ELSE Add([self EXCEPT !.line_byte_pos = next.pos],
                                  next.ch.width)
                ELSE Done(self, "None")
          [] key.k = "Left" ->
                IF self.cursor_pos > 0
                THEN LET prev == to_prev_char(line, self.line_byte_pos)
                     IN  IF prev.panic THEN Fail
                         ELSE Sub([self EXCEPT !.line_byte_pos = prev.pos],
                                  prev.ch.width)
                ELSE Done(self, "None")
          [] key.k = "Home" ->
                Done([self EXCEPT !.line_byte_pos = 0, !.cursor_pos = 0],
                    "None")
          [] key.k = "End" ->
                Done([self EXCEPT !.line_byte_pos = Len(line),
                                 !.cursor_pos = line_column_len(line)],
                    "None")
          [] key.k = "Char" ->
                LET ins == StringInsert(line, self.line_byte_pos, key.ch)
                IN  IF ins.panic THEN Fail
                    ELSE Add([self EXCEPT
                                !.line_buf[self.line_idx + 1] = ins.s,
                                !.line_byte_pos = @ + key.ch.len],
                             key.ch.width)
          [] OTHER -> Done(self, "None")

-----------------------------------------------------------------------------
(* the session *)

VARIABLES
    vars,         \* Interpreter.vars
    last_result,  \* Interpreter.last_result
    submits,      \* submissions so far
    entry,        \* how the last submission came in: "none", "text", "tokens",
                  \* "tree"
    expr,         \* the text last submitted
    toks,         \* its tokens
    tree,         \* its tree
    result,       \* what the last submission returned
    last_some,    \* history: the v of the latest Ok(Some(v)) returned
    input,        \* the PosixInputHandler of the prompt
    cmd           \* what its last handle_input returned: "None", "Quit",
                  \* "Equation", or "panic"

state == <<vars, last_result, submits, entry, expr, toks, tree, result,
           last_some, input, cmd>>

NoResult == [st |-> "none", some |-> FALSE, val |-> NaN, err |-> NoErr]
Returned(r) == [st |-> r.st, some |-> r.some, val |-> r.val, err |-> r.err]
NoneYet == [k |-> "none", neg |-> FALSE, mag |-> 0]

Init ==
    /\ vars = NewInterpreter.vars
    /\ last_result = NewInterpreter.last_result
    /\ submits = 0
    /\ entry = "none"
    /\ expr = <<>>
    /\ toks = <<>>
    /\ tree = NoAst
    /\ result = NoResult
    /\ last_some = NoneYet
    /\ input = PosixInputHandler
    /\ cmd = "None"

\* the call panics: nothing is returned and the process ends
Panicked(self) == XFail("panic", NoErr, self)

Record(r) ==
    /\ r.st # "unmodelled"
    /\ result.st \notin {"panic", "hang"}
    /\ vars' = r.self.vars
    /\ last_result' = r.self.last_result
    /\ submits' = submits + 1
    /\ result' = Returned(r)
    /\ last_some' = IF r.st = "ok" /\ r.some THEN r.val ELSE last_some
    /\ UNCHANGED <<input, cmd>>

\* one call of eval_expression on the session
EvalExpression(e) ==
    LET lexed == lex_equation(e)
        ast   == parse_tokens(lexed.toks)
    IN  /\ \/ Record(eval_expression(Interpreter(vars, last_result), e))
           \/ /\ lexed.overflow
              /\ Record(Panicked(Interpreter(vars, last_result)))
        /\ entry' = "text"
        /\ expr' = e
        /\ toks' = IF lexed.ok THEN lexed.toks ELSE <<>>
        /\ tree' = IF lexed.ok /\ ast.ok THEN ast.ast ELSE NoAst

\* one call of eval_expression entered after its lexer, on a token vector
EvalTokens(t) ==
    LET ast == parse_tokens(t)
    IN  /\ Record(eval_tokens(Interpreter(vars, last_result), t))
        /\ entry' = "tokens"
        /\ expr' = <<>>
        /\ toks' = t
        /\ tree' = IF ast.ok THEN ast.ast ELSE NoAst

\* a session of text submissions
Next == submits < MaxSubmits /\ \E e \in SessionInputs : EvalExpression(e)
Spec == Init /\ [][Next]_state

\* one submission on a new session, as a text or as a token vector
NextExpr ==
    \/ submits = 0 /\ \E e \in ExprInputs : EvalExpression(e)
    \/ submits = 0 /\ \E t \in TokenInputs : EvalTokens(t)
SpecExpr == Init /\ [][NextExpr]_state

\* a session whose submissions come as texts or as token vectors
NextTokens ==
    \/ submits < MaxSubmits /\ \E e \in SessionInputs : EvalExpression(e)
    \/ submits < MaxSubmits /\ \E t \in TokenInputs : EvalTokens(t)
SpecTokens == Init /\ [][NextTokens]_state

\* trees handed to the evaluator directly, well formed or not: a root of
\* any variant over up to three leaves
TreeVals   == {AstFunc("Sin"), AstFunc("Sqrt"), AstOp("Plus"), AstOp("Minus"),
               AstOp("Neg"), AstOp("Fact"), AstOp("Assign"), AstParen,
               AstNum(Whole(1)), AstName("x")}
TreeLeaves == {Ast(AstNum(Whole(1)), <<2, 3>>, Leaf),
               Ast(AstNum(Whole(2)), <<4, 5>>, Leaf),
               Ast(AstName("x"), <<6, 7>>, Leaf)}
MaxBranches == 3
TreeInputs ==
    {Ast(val, <<0, 1>>, br) :
        val \in TreeVals,
        br \in UNION {[1..n -> TreeLeaves] : n \in 0..MaxBranches}}

\* one call of eval_expr on a tree
EvalTree(ast) ==
    /\ Record(eval_expr(Interpreter(vars, last_result), ast))
    /\ entry' = "tree"
    /\ expr' = <<>>
    /\ toks' = <<>>
    /\ tree' = ast

\* one tree evaluated on a new session
NextTrees == submits = 0 /\ \E a \in TreeInputs : EvalTree(a)
SpecTrees == Init /\ [][NextTrees]_state

\* the longest line typed, the most lines entered, and how far cursor_pos
\* is followed from zero, upwards and, once wrapped, downwards
MaxLineBytes == 4
MaxHist == 1
MaxCursor == 4

\* one call of handle_input: a key is pressed at the prompt
HandleInput(key) ==
    LET r == handle_input(input, key)
    IN  /\ cmd \notin {"Quit", "panic"}
        /\ key.k = "Char" =>
              Len(input.line_buf[input.line_idx + 1]) + key.ch.len
                 <= MaxLineBytes
        /\ key.k = "Enter" => Len(input.line_hist) < MaxHist
        /\ \/ r.self.cursor_pos <= MaxCursor
           \/ r.self.cursor_pos >= UsizeModulus - MaxCursor
        /\ \/ ~r.panic /\ input' = r.self /\ cmd' = r.out
           \/ (r.panic \/ r.overflow) /\ input' = input /\ cmd' = "panic"
        /\ UNCHANGED <<vars, last_result, submits, entry, expr, toks, tree,
                       result, last_some>>

\* the keys pressed at the prompt
NextEditor == \E key \in Keys : HandleInput(key)
SpecEditor == Init /\ [][NextEditor]_state



-----------------------------------------------------------------------------
(* what the properties are stated with *)

Zero == Fin(FALSE, 0)
OkSome(v) == [st |-> "ok", some |-> TRUE, val |-> v, err |-> NoErr]
OkNone    == [st |-> "ok", some |-> FALSE, val |-> NaN, err |-> NoErr]

\* the value an atom of Atoms writes
AtomVal(a) == CASE a = <<"0">> -> AstNum(Whole(0))
                [] a = <<"1">> -> AstNum(Whole(1))
                [] a = <<"2">> -> AstNum(Whole(2))
                [] a = <<"3">> -> AstNum(Whole(3))
                [] a = <<"4">> -> AstNum(Whole(4))
                [] a = <<"3", ".", "5">> -> AstNum(Halves(7))
                [] a = <<"x">> -> AstName("x")

\* the operator a symbol of BinOps writes
OpVal(o) == CASE o = <<"+">> -> AstOp("Plus") [] o = <<"-">> -> AstOp("Minus")
              [] o = <<"*">> -> AstOp("Mult") [] o = <<"/">> -> AstOp("Div")
              [] o = <<"^">> -> AstOp("Pow")

RECURSIVE Shape(_)
\* a tree without its spans: <<val, shapes of the branches>>
Shape(ast) == <<ast.val, [i \in 1..Len(ast.branches) |-> Shape(ast.branches[i])]>>

LeafShape(a)        == <<AtomVal(a), <<>> >>
NodeShape(o, l, r)  == <<OpVal(o), <<l, r>> >>

RECURSIVE Nodes(_)
\* every node of a tree
Nodes(ast) ==
    {ast} \cup UNION {Nodes(ast.branches[i]) : i \in 1..Len(ast.branches)}

Submitted(e) == entry = "text" /\ expr = e
StartsWith(pre) ==
    entry = "text" /\ Len(expr) >= Len(pre) /\ SubSeq(expr, 1, Len(pre)) = pre

Sin0Plus1 == <<"s", "i", "n", "(", "0", ")", "+", "1">>
Sqrt4Pow2 == <<"s", "q", "r", "t", "(", "4", ")", "^", "2">>

-----------------------------------------------------------------------------
\* C1: in a text f(E) o b the Function node's child is the tree of the group
\* (E) alone and the operator after the group is applied to the function's
\* result: the root is the operator o, its left branch the Function node
\* covering exactly f(E); "sin(0)+1" evaluates to 1 and "sqrt(4)^2" to 4.
C1_FunctionTakesItsGroup ==
    /\ \A f \in {t \in FuncNames : StartsWith(t)},
          a \in Atoms, o \in BinOps, b \in SmallAtoms :
          Submitted(Cat(<<f, <<"(">>, a, <<")">>, o, b>>)) =>
             /\ tree.val = OpVal(o)
             /\ Len(tree.branches) = 2
             /\ tree.branches[1].val.t = "Func"
             /\ get_total_span(tree.branches[1]) = <<0, Len(f) + Len(a) + 2>>
             /\ Shape(tree.branches[2]) = LeafShape(b)
    /\ Submitted(Sin0Plus1) => result = OkSome(Whole(1))
    /\ Submitted(Sqrt4Pow2) => result = OkSome(Whole(4))

-----------------------------------------------------------------------------
\* C2: "*" and "/" bind tighter than "+" and "-", and both levels associate
\* to the left: a o1 b o2 c parses as o1(a, o2(b, c)) when o1 is additive
\* and o2 multiplicative, and as o2(o1(a, b), c) otherwise; "2+3*4" is 14.
AddOps == {<<"+">>, <<"-">>}
MulOps == {<<"*">>, <<"/">>}

C2_PrecedenceAndLeftAssoc ==
    /\ \A a \in {t \in Atoms : StartsWith(t)},
          o1 \in AddOps \cup MulOps, b \in Atoms,
          o2 \in AddOps \cup MulOps, c \in SmallAtoms :
          Submitted(Cat(<<a, o1, b, o2, c>>)) =>
             Shape(tree) =
                IF o1 \in AddOps /\ o2 \in MulOps
                THEN NodeShape(o1, LeafShape(a),
                               NodeShape(o2, LeafShape(b), LeafShape(c)))
                ELSE NodeShape(o2, NodeShape(o1, LeafShape(a), LeafShape(b)),
                               LeafShape(c))
    /\ Submitted(<<"2", "+", "3", "*", "4">>) => result = OkSome(Whole(14))

C2_Witness ==
    /\ Submitted(<<"2", "+", "3", "*", "4">>)
    /\ result = OkSome(Whole(14))
    /\ tree.val = AstOp("Plus")

-----------------------------------------------------------------------------
\* C3: "^" associates to the right: a^b^c parses as Pow(a, Pow(b, c)), and
\* "2^3^2" is 512.
C3_PowRightAssoc ==
    /\ \A a \in {t \in Atoms : StartsWith(t)}, b \in Atoms, c \in SmallAtoms :
          Submitted(Cat(<<a, <<"^">>, b, <<"^">>, c>>)) =>
             Shape(tree) =
                NodeShape(<<"^">>, LeafShape(a),
                          NodeShape(<<"^">>, LeafShape(b), LeafShape(c)))
    /\ Submitted(<<"2", "^", "3", "^", "2">>) => result = OkSome(Whole(512))

C3_Witness ==
    /\ Submitted(<<"2", "^", "3", "^", "2">>)
    /\ result = OkSome(Whole(512))
    /\ tree.branches[2].val = AstOp("Pow")

-----------------------------------------------------------------------------
XEq5     == <<"x", " ", "=", " ", "5">>
XPlus1   == <<"x", " ", "+", " ", "1">>
\* the submission just made was the text e
Submits(e) == submits' # submits /\ entry' = "text" /\ expr' = e

\* C4: through eval_expression on one session the text "x = 5" returns
\* Ok(None) and binds x to 5, and a following "x + 1" returns Ok(Some(6.0)).
C4_AssignThenRecall ==
    [][ /\ Submits(XEq5) =>
            /\ result' = OkNone
            /\ "x" \in DOMAIN vars'
            /\ vars'["x"] = Whole(5)
        /\ Submitted(XEq5) /\ Submits(XPlus1) => result' = OkSome(Whole(6))
      ]_state

-----------------------------------------------------------------------------
Ans        == <<"a", "n", "s">>
ThreeTimes2 == <<"3", " ", "*", " ", "2">>
AnsTimes10 == <<"a", "n", "s", " ", "*", " ", "1", "0">>

\* C5: the last result is 0.0 in a new session and afterwards the value of
\* the most recent submission that returned Ok(Some(v)); `ans` evaluates to
\* it; "3 * 2" then "ans * 10" return Some(6.0) then Some(60.0).
C5_LastResult ==
    /\ [](last_result = IF last_some = NoneYet THEN Zero ELSE last_some)
    /\ [][ /\ Submits(Ans) => result' = OkSome(last_result)
           /\ Submits(ThreeTimes2) => result' = OkSome(Whole(6))
           /\ Submitted(ThreeTimes2) /\ Submits(AnsTimes10) =>
                 result' = OkSome(Whole(60))
         ]_state

C5_Witness ==
    /\ Submitted(AnsTimes10)
    /\ result = OkSome(Whole(60))
    /\ last_result = Whole(60)
    /\ submits = 2

-----------------------------------------------------------------------------
\* C6: a submission that returns Err, whether from the lexer, the parser or
\* the evaluator, leaves the variable table and the last result as they
\* were; an assignment whose right-hand side fails binds nothing.
C6_FailureLeavesSession ==
    [][ submits' # submits /\ result'.st = "err" =>
           /\ vars' = vars
           /\ last_result' = last_result
      ]_state

SqrtMinus1Toks == <<TokName("sqrt"), ParenOpen, TokOp("Minus"),
                    TokNum(Whole(1)), ParenClose>>

\* `let y = sqrt(-1)` has failed on a session that holds x
C6_Witness ==
    /\ entry = "tokens"
    /\ toks = LetToks(TokName("y"), SqrtMinus1Toks)
    /\ result.st = "err"
    /\ DOMAIN vars = {"x"}

-----------------------------------------------------------------------------
\* the submission just made returned Ok and its tree is an assignment
AssignedOk ==
    submits' # submits /\ result'.st = "ok" /\ tree'.val = AstOp("Assign")
\* the submission just made returned Ok and its tree is no assignment
EvaluatedOk ==
    submits' # submits /\ result'.st = "ok" /\ tree'.val # AstOp("Assign")

\* C7: a successful assignment returns None, leaves the last result
\* unchanged and changes the variable table at the assigned name only; a
\* successful evaluation of anything else leaves the variable table unchanged.
C7_AssignmentFrame ==
    [][ /\ AssignedOk =>
            /\ result' = OkNone
            /\ last_result' = last_result
            /\ LET name == tree'.branches[1].val.k
               IN  /\ DOMAIN vars' = DOMAIN vars \cup {name}
                   /\ \A n \in DOMAIN vars \ {name} : vars'[n] = vars[n]
        /\ EvaluatedOk => result'.some /\ vars' = vars
      ]_state

\* `let y = ans` has succeeded on a session that holds x and a last result
C7_Witness ==
    /\ entry = "tokens"
    /\ tree.val = AstOp("Assign")
    /\ result = OkNone
    /\ last_result # Zero
    /\ submits = MaxSubmits

-----------------------------------------------------------------------------
\* a double below zero; a double below or equal to zero (NaN is neither)
Negative(v)    == v.k \in {"fin", "inf"} /\ v.neg /\ (v.k = "inf" \/ v.mag > 0)
NonPositive(v) == Negative(v) \/ (v.k = "fin" /\ v.mag = 0)

DomainDesc(f) ==
    IF f = "Sqrt" THEN "Cannot take the square root of a negative number"
    ELSE "Cannot take the logarithm of a non-positive number"

\* the Sqrt, Ln and Log nodes of the tree of the last submission
DomainNodes ==
    {n \in Nodes(tree) : /\ n.val.t = "Func"
                         /\ n.val.k \in {"Sqrt", "Ln", "Log"}
                         /\ Len(n.branches) = 1}

SqrtMinus1 == <<"s", "q", "r", "t", "(", "-", "1", ")">>

\* C8: a Sqrt node fails exactly when its evaluated argument is below zero,
\* an Ln or Log node exactly when it is zero or below (a NaN argument is
\* neither and passes); the error carries the total span of the argument
\* node; for "sqrt(-1)" that is (4,8), the group around `-1` at (5,7).
C8_DomainErrors ==
    /\ \A n \in DomainNodes :
          LET child == n.branches[1]
              a     == eval_eq(NewInterpreter, child)
              r     == eval_eq(NewInterpreter, n)
              bad   == IF n.val.k = "Sqrt" THEN Negative(a.val)
                       ELSE NonPositive(a.val)
          IN  a.st = "ok" /\ r.st # "unmodelled" =>
                 /\ r.st = IF bad THEN "err" ELSE "ok"
                 /\ bad => r.err = CalcrError(DomainDesc(n.val.k), "",
                                              get_total_span(child))
                 /\ n = tree => result.st = r.st /\ result.err = r.err
    /\ Submitted(SqrtMinus1) =>
          /\ result.st = "err"
          /\ result.err.span = <<4, 8>>
          /\ get_total_span(tree.branches[1].branches[1]) = <<5, 7>>

C8_Witness ==
    /\ Submitted(SqrtMinus1)
    /\ result.st = "err"
    /\ result.err.desc = DomainDesc("Sqrt")
    /\ result.err.span = get_total_span(tree.branches[1])

-----------------------------------------------------------------------------
RECURSIVE Product1To(_)
\* 1 * 2 * ... * n
Product1To(n) == IF n = 0 THEN 1 ELSE n * Product1To(n - 1)

FactDesc == "The factorial function only accepts positive whole numbers"

\* the Factorial nodes of the tree of the last submission
FactNodes ==
    {n \in Nodes(tree) : n.val = AstOp("Fact") /\ Len(n.branches) = 1}

\* C9: a Factorial node whose operand evaluates to a whole number n >= 0
\* returns 1 * 2 * ... * n; one whose operand is below zero or has a
\* fractional part fails with the operand's total span; "0!" is 1, "3!!" is
\* 720 and "3.5!" fails.
C9_Factorial ==
    /\ \A n \in FactNodes :
          LET child == n.branches[1]
              a     == eval_eq(NewInterpreter, child)
              r     == eval_eq(NewInterpreter, n)
          IN  a.st = "ok" /\ r.st # "unmodelled" /\ a.val.k = "fin" =>
                 /\ IF a.val.mag % 2 = 0 /\ ~Negative(a.val)
                    THEN r = EOk(Whole(Product1To(a.val.mag \div 2)))
                    ELSE r = EErr(CalcrError(FactDesc, "",
                                             get_total_span(child)))
                 /\ n = tree => result.st = r.st /\ result.err = r.err
    /\ Submitted(<<"0", "!">>) => result = OkSome(Whole(1))
    /\ Submitted(<<"3", "!", "!">>) => result = OkSome(Whole(720))
    /\ Submitted(<<"3", ".", "5", "!">>) =>
          result.st = "err" /\ result.err.span = <<0, 3>>

C9_Witness ==
    /\ Submitted(<<"3", "!", "!">>)
    /\ result = OkSome(Whole(720))
    /\ tree.branches[1].val = AstOp("Fact")

-----------------------------------------------------------------------------
\* the operator token a node of operator op comes from
TokenOf(op) == TokOp(IF op = "Neg" THEN "Minus" ELSE op)

\* the operator nodes of the tree of the last submission
OpNodes == {n \in Nodes(tree) : n.val.t = "Op"}

\* C10: the own span of every operator node is the span of an operator token
\* of that kind in the input, and not the span its operands cover with it;
\* for "2+3" the tokens are at (0,1), (1,2), (2,3), the Add node has own span
\* (1,2) and total span (0,3).
C10_OperatorSpan ==
    /\ \A n \in OpNodes :
          /\ \E i \in 1..Len(toks) :
                toks[i] = Token(TokenOf(n.val.k), n.span)
          /\ n.span # get_total_span(n)
    /\ Submitted(<<"2", "+", "3">>) =>
          /\ [i \in 1..Len(toks) |-> toks[i].span] =
                <<(<<0, 1>>), (<<1, 2>>), (<<2, 3>>)>>
          /\ tree.val = AstOp("Plus")
          /\ tree.span = <<1, 2>>
          /\ get_total_span(tree) = <<0, 3>>

C10_Witness ==
    /\ Submitted(<<"2", "+", "3">>)
    /\ tree.val = AstOp("Plus")
    /\ tree.span = toks[2].span
    /\ result = OkSome(Whole(5))

-----------------------------------------------------------------------------
\* the least and the greatest of a non-empty set of offsets
MinOf(S) == CHOOSE x \in S : \A y \in S : x <= y
MaxOf(S) == CHOOSE x \in S : \A y \in S : y <= x

\* span a lies within span b
Within(a, b) == b[1] <= a[1] /\ a[2] <= b[2]

\* C11: the total span of every node is (the least start, the greatest end)
\* over the own spans of the node and all its descendants; it contains the
\* node's own span and the total span of every child, and for a leaf it is
\* the leaf's own span.
C11_TotalSpan ==
    \A n \in Nodes(tree) :
       LET total == get_total_span(n)
       IN  /\ total = <<MinOf({m.span[1] : m \in Nodes(n)}),
                        MaxOf({m.span[2] : m \in Nodes(n)})>>
           /\ Within(n.span, total)
           /\ \A i \in 1..Len(n.branches) :
                 Within(get_total_span(n.branches[i]), total)
           /\ is_leaf(n) => total = n.span

\* "-(1)": the Neg node at (0,1) over a group at (1,4) has total span (0,4)
C11_Witness ==
    /\ Submitted(<<"-", "(", "1", ")">>)
    /\ tree.val = AstOp("Neg")
    /\ tree.span = <<0, 1>>
    /\ get_total_span(tree.branches[1]) = <<1, 4>>
    /\ get_total_span(tree) = <<0, 4>>

-----------------------------------------------------------------------------
\* the characters of the submitted text that span s covers, as the lexer
\* reads them (lowercased)
Covered(s) == [i \in 1..(s[2] - s[1]) |-> to_lowercase(expr[s[1] + i])]

\* s is a pair of character offsets into the submitted text
IsCharSpan(s) == 0 <= s[1] /\ s[1] <= s[2] /\ s[2] <= Len(expr)

\* the error came from the lexer
LexerFailed == result.st = "err"
               /\ result.err.desc \in {"Invalid number", "Invalid char"}

\* C12: every span the lexer produces, on a token or on an invalid-number or
\* invalid-character error, is a pair of character offsets start <= end <=
\* the number of characters of the input, covering exactly the characters of
\* the token or of the offending run, also when the run holds characters of
\* more than one byte; the lexer produces such a span for every input.
C12_LexerSpans ==
    entry = "text" =>
       /\ result.st # "panic"
       /\ \A i \in 1..Len(toks) :
             LET s == toks[i].span
             IN  /\ IsCharSpan(s)
                 /\ s[1] < s[2]
                 /\ i > 1 => toks[i - 1].span[2] <= s[1]
                 /\ \A j \in 1..Len(Covered(s)) :
                       ~is_whitespace(Covered(s)[j])
                 /\ toks[i].val.t = "Name" /\ Covered(s) # <<"<sqrt>">> =>
                       StrOf(Covered(s)) = toks[i].val.k
                 /\ toks[i].val.t = "Num" =>
                       ParseF64(Covered(s)) = [ok |-> TRUE,
                                               num |-> toks[i].val.num]
       /\ LexerFailed =>
             /\ IsCharSpan(result.err.span)
             /\ StrOf(Covered(result.err.span)) = result.err.arg

-----------------------------------------------------------------------------
\* the symbol characters and the token each one is to give
SymbolChars == {"+", "-", "*", "/", "^", "!", "(", ")", "[", "]", "{", "}",
                "|"}
SymbolKind(ch) == CASE ch = "+" -> <<"Op", "Plus">>
                    [] ch = "-" -> <<"Op", "Minus">>
                    [] ch = "*" -> <<"Op", "Mult">>
                    [] ch = "/" -> <<"Op", "Div">>
                    [] ch = "^" -> <<"Op", "Pow">>
                    [] ch = "!" -> <<"Op", "Fact">>
                    [] ch = "(" -> <<"ParenOpen", "">>
                    [] ch = ")" -> <<"ParenClose", "">>
                    [] ch = "[" -> <<"BracketOpen", "">>
                    [] ch = "]" -> <<"BracketClose", "">>
                    [] ch = "{" -> <<"BraceOpen", "">>
                    [] ch = "}" -> <<"BraceClose", "">>
                    [] ch = "|" -> <<"AbsDelim", "">>

\* the submitted text is made of symbol characters only
OnlySymbols == entry = "text" /\ \A i \in 1..Len(expr) : expr[i] \in SymbolChars

\* C13: a text of the symbol characters + - * / ^ ! ( ) [ ] { } | lexes, and
\* gives one operator or delimiter token per character, the i-th at span
\* (i-1, i).
C13_SymbolTokens ==
    OnlySymbols =>
       /\ ~LexerFailed
       /\ Len(toks) = Len(expr)
       /\ \A i \in 1..Len(toks) :
             /\ toks[i].span = <<i - 1, i>>
             /\ <<toks[i].val.t, toks[i].val.k>> = SymbolKind(expr[i])

-----------------------------------------------------------------------------
\* the symbols lex_single_char has an arm for
RecognizedSymbols == {"+", "-", "*", "/", "^", "!", "<sqrt>", "(", ")", "|"}

\* the character is of none of the classes the lexer starts a token on
Unclassified(ch) ==
    /\ ~is_whitespace(ch) /\ ~is_numeric(ch) /\ ~is_alphabetic(ch)
    /\ ch \notin RecognizedSymbols

\* the i-th character of the text is unclassified, and is not a dot that
\* continues a run of numeric characters and dots
Unrecognized(i) ==
    /\ Unclassified(expr[i])
    /\ ~(expr[i] = "." /\ i > 1 /\ expr[i - 1] \in NumberPred)

\* lexing failed on the i-th character alone, and returned no tokens
InvalidCharAt(i) ==
    /\ result.st = "err"
    /\ result.err = CalcrError("Invalid char", to_lowercase(expr[i]),
                                <<i - 1, i>>)
    /\ toks = <<>>
    /\ lex_equation(expr).toks = <<>>

-----------------------------------------------------------------------------
\* the builtin functions' names among the names
IsFuncName(name) ==
    get_builtin_name(name).some /\ get_builtin_name(name).val.t = "Func"

RECURSIVE Scan(_, _, _)
\* reads the tokens ts as the start of an expression, with the delimiters
\* open so far in `open` (innermost first) and st telling what may come:
\* "operand", "paren" (after a function's name) or "operator" (after an
\* operand).  The outcome is where the tokens end and what is open there,
\* or "stop" when a token cannot come where it stands.
Scan(ts, open, st) ==
    IF ts = <<>> THEN [st |-> st, open |-> open]
    ELSE
    LET v == Head(ts).val
        rest == Tail(ts)
        stop == [st |-> "stop", open |-> open]
    IN  CASE st = "operand" ->
               IF v.t = "Num" THEN Scan(rest, open, "operator")
               ELSE IF v.t = "Name"
               THEN Scan(rest, open,
                         IF IsFuncName(v.k) THEN "paren" ELSE "operator")
               ELSE IF v = TokOp("Minus") THEN Scan(rest, open, "operand")
               ELSE IF v = ParenOpen
               THEN Scan(rest, <<"paren">> \o open, "operand")
               ELSE IF v = AbsDelim
               THEN Scan(rest, <<"abs">> \o open, "operand")
               ELSE stop
          [] st = "paren" ->
               IF v = ParenOpen THEN Scan(rest, <<"paren">> \o open, "operand")
               ELSE stop
          [] st = "operator" ->
               IF v.t = "Op" /\ v.k \in {"Plus", "Minus", "Mult", "Div", "Pow"}
               THEN Scan(rest, open, "operand")
               ELSE IF v = TokOp("Fact") THEN Scan(rest, open, "operator")
               ELSE IF v = ParenClose /\ open # <<>> /\ Head(open) = "paren"
               THEN Scan(rest, Tail(open), "operator")
               ELSE IF v = AbsDelim /\ open # <<>> /\ Head(open) = "abs"
               THEN Scan(rest, Tail(open), "operator")
               ELSE stop

\* Scan from the start of an expression
ScanFrom(ts) == Scan(ts, <<>>, "operand")

\* the submission was handed to the parser, with the tokens toks
Parsed == entry = "tokens" \/ (entry = "text" /\ lex_equation(expr).ok)

\* the tokens end where an operand has to come
OperandMissing == Parsed /\ ScanFrom(toks).st = "operand"

\* the end offset of the last token, 0 without tokens
LastEnd == IF toks = <<>> THEN 0 ELSE toks[Len(toks)].span[2]

\* C15: the empty text lexes to the empty token sequence, and when the
\* tokens end where the parser needs an operand (no tokens at all included)
\* parsing fails with "Expected number or constant" at the zero-width span
\* (p, p), p the end offset of the last token, 0 when there is none.
C15_EndOfInput ==
    /\ lex_equation(<<>>) = [ok |-> TRUE, toks |-> <<>>, err |-> NoErr,
                             overflow |-> FALSE]
    /\ OperandMissing =>
          /\ result.st = "err"
          /\ result.err = CalcrError("Expected number or constant", "",
                                     <<LastEnd, LastEnd>>)
          /\ tree = NoAst

C15_Witness ==
    /\ Submitted(<<"(", "1", ")", "+", " ">>)
    /\ OperandMissing
    /\ LastEnd = 4
    /\ result.err.span = <<4, 4>>

-----------------------------------------------------------------------------
Openers == {"(", "[", "{"}
Closers == {")", "]", "}"}
CloserOf(ch) == CASE ch = "(" -> ")" [] ch = "[" -> "]" [] ch = "{" -> "}"

RECURSIVE DelimScan(_, _)
\* follows the grouping delimiters of the text cs, with the closers awaited
\* in `open` (innermost first): "unopened" at a closer with no group open,
\* "mismatch" at a closer of another kind than the innermost group's, and at
\* the end "open" while a group is open, "balanced" otherwise
DelimScan(cs, open) ==
    IF cs = <<>> THEN (IF open = <<>> THEN "balanced" ELSE "open")
    ELSE IF Head(cs) \in Openers
    THEN DelimScan(Tail(cs), <<CloserOf(Head(cs))>> \o open)
    ELSE IF Head(cs) \in Closers
    THEN IF open = <<>> THEN "unopened"
         ELSE IF Head(open) = Head(cs) THEN DelimScan(Tail(cs), Tail(open))
         ELSE "mismatch"
    ELSE DelimScan(Tail(cs), open)

\* C16: a text that ends while a group is open, or whose group is closed by
\* a delimiter of another kind, does not parse: the submission fails.
C16_GroupsClosedInKind ==
    (entry = "text" /\ DelimScan(expr, <<>>) \in {"open", "mismatch"})
    => result.st = "err"

-----------------------------------------------------------------------------
\* how many groups of the kind are open
Level(kind, open) == Cardinality({i \in 1..Len(open) : open[i] = kind})

\* what is read before the i-th token
Before(i) == ScanFrom(SubSeq(toks, 1, i - 1))

\* the i-th token is a ")" the parser comes to with no parenthesis open
StrayParenClose(i) ==
    /\ toks[i].val = ParenClose
    /\ Before(i).st \in {"operand", "operator"}
    /\ Level("paren", Before(i).open) = 0

\* the i-th token is a closing "|" the parser comes to with no bar open
StrayAbsDelim(i) ==
    /\ toks[i].val = AbsDelim
    /\ Before(i).st = "operator"
    /\ Level("abs", Before(i).open) = 0

MissingOpening(desc, i) ==
    result.st = "err" /\ result.err = CalcrError(desc, "", toks[i].span)

\* C17: a ")" met while no parenthesis is open, or a closing "|" met while
\* no bar is open, makes the parse fail with the missing-opening error of
\* its kind at that token, wherever the token stands.
C17_MissingOpening ==
    Parsed =>
       \A i \in 1..Len(toks) :
          /\ StrayParenClose(i)
                => MissingOpening("Missing opening parentheses", i)
          /\ StrayAbsDelim(i)
                => MissingOpening("Missing opening abs delimiter", i)

-----------------------------------------------------------------------------
\* the token ends an operand when it comes after one
EndsOperand(v, after) ==
    \/ v.t = "Num"
    \/ v.t = "Name" /\ ~IsFuncName(v.k)
    \/ v = ParenClose
    \/ v = TokOp("Fact") /\ after
    \/ v = AbsDelim /\ after

RECURSIVE Crossed(_, _, _)
\* some group of the tokens ts is ended by the closing delimiter of the
\* other kind: a "|" group by ")" or a "(" group by "|".  `open` holds the
\* groups open so far (innermost first); a "|" closes when it comes after an
\* operand (`after`) and opens otherwise.
Crossed(ts, open, after) ==
    IF ts = <<>> THEN FALSE
    ELSE
    LET v    == Head(ts).val
        next == EndsOperand(v, after)
    IN  IF v = ParenOpen THEN Crossed(Tail(ts), <<"paren">> \o open, next)
        ELSE IF v = AbsDelim /\ ~after
        THEN Crossed(Tail(ts), <<"abs">> \o open, next)
        ELSE IF v = ParenClose \/ v = AbsDelim
        THEN IF open = <<>> THEN Crossed(Tail(ts), open, next)
             ELSE IF Head(open) = (IF v = ParenClose THEN "paren" ELSE "abs")
             THEN Crossed(Tail(ts), Tail(open), next)
             ELSE TRUE
        ELSE Crossed(Tail(ts), open, next)

One == <<AstNum(Whole(1)), <<>> >>
Wrap(val, inner) == <<val, <<inner>> >>

\* C18: every text in which a "|" group is ended by ")" or a "(" group is
\* ended by "|" fails to parse, while "|(1)|" and "(|1|)" parse, to the
\* absolute value of the group and to the group of the absolute value.
C18_SeparateCounters ==
    /\ (entry = "text" /\ lex_equation(expr).ok /\ Crossed(toks, <<>>, FALSE))
          => result.st = "err"
    /\ Submitted(<<"|", "(", "1", ")", "|">>)
          => /\ result.st = "ok"
             /\ Shape(tree) = Wrap(AstFunc("Abs"), Wrap(AstParen, One))
    /\ Submitted(<<"(", "|", "1", "|", ")">>)
          => /\ result.st = "ok"
             /\ Shape(tree) = Wrap(AstParen, Wrap(AstFunc("Abs"), One))

-----------------------------------------------------------------------------
\* the tokens before the first "=", without a leading `let`: the target
TargetOf(i) ==
    SubSeq(toks, IF toks[1].val = TokKeyword("Let") THEN 2 ELSE 1, i - 1)

FirstAssign(i) ==
    /\ toks[i].val = TokOp("Assign")
    /\ \A j \in 1..(i - 1) : toks[j].val # TokOp("Assign")

\* the target is one name that is no builtin
BareName(target) ==
    /\ Len(target) = 1
    /\ target[1].val.t = "Name"
    /\ ~get_builtin_name(target[1].val.k).some

TargetSpan(target) == <<target[1].span[1], target[Len(target)].span[2]>>

AnsEq1 == <<"a", "n", "s", "=", "1">>

\* C19: when the target before an "=" is not a bare name that is no builtin
\* (a builtin name, a function application, a number, a compound
\* expression), the submission fails with an error whose span is the whole
\* target's, and no tree is produced; so for the text "ans=1", whose target
\* spans (0, 3).
C19_InvalidTarget ==
    /\ entry = "tokens" =>
          \A i \in 1..Len(toks) :
             (FirstAssign(i) /\ TargetOf(i) # <<>> /\ ~BareName(TargetOf(i)))
             => /\ result.st = "err"
                /\ result.err.span = TargetSpan(TargetOf(i))
                /\ tree = NoAst
    /\ Submitted(AnsEq1) =>
          /\ result.st = "err"
          /\ result.err.span = <<0, 3>>
          /\ tree = NoAst

-----------------------------------------------------------------------------
Aliases == {"<pi>", "<phi>", "<sqrt>"}
AsciiOf(ch) == CASE ch = "<pi>" -> <<"p", "i">>
                 [] ch = "<phi>" -> <<"p", "h", "i">>
                 [] ch = "<sqrt>" -> <<"s", "q", "r", "t">>
                 [] OTHER -> <<ch>>

RECURSIVE Replaced(_)
\* the text cs with every alias replaced by its ASCII name
Replaced(cs) == IF cs = <<>> THEN <<>>
                ELSE AsciiOf(Head(cs)) \o Replaced(Tail(cs))

RECURSIVE Variants(_)
\* the node variants of a tree: its values without the spans and without
\* the strings of its names
Variants(ast) ==
    <<IF ast.val.t = "Name" THEN AstName("") ELSE ast.val,
      [i \in 1..Len(ast.branches) |-> Variants(ast.branches[i])]>>

\* the tree eval_expression builds for the text e, NoAst when it builds none
TreeOf(e) ==
    LET lexed == lex_equation(e)
        ast   == parse_tokens(lexed.toks)
    IN  IF lexed.ok /\ ast.ok THEN ast.ast ELSE NoAst

\* r is the result of the text e on a new session, up to the name an error
\* quotes and the place it points at
SameResultAs(e) ==
    IF result.st = "panic" THEN lex_equation(e).overflow
    ELSE LET r == eval_expression(NewInterpreter, e)
         IN  /\ result.st = r.st
             /\ result.some = r.some
             /\ result.val = r.val
             /\ result.err.desc = r.err.desc

HasAlias == \E i \in 1..Len(expr) : expr[i] \in Aliases

\* the nodes made from the alias at the i-th character are one wide
AliasNodesOneWide ==
    \A i \in 1..Len(expr), n \in Nodes(tree) :
       (expr[i] \in Aliases /\ n.span[1] = i - 1
          /\ n.val \in {AstConst("Pi"), AstConst("Phi"), AstFunc("Sqrt")})
       => n.span = <<i - 1, i>>

\* C20: replacing the aliases of a text by pi, phi and sqrt gives
\* a tree of the same node variants and the same result, and an alias's node
\* is one character wide.
C20_AliasesInterchangeable ==
    (entry = "text" /\ submits = 1 /\ HasAlias) =>
       /\ Variants(tree) = Variants(TreeOf(Replaced(expr)))
       /\ SameResultAs(Replaced(expr))
       /\ AliasNodesOneWide

-----------------------------------------------------------------------------
\* the Name nodes of a tree that are evaluated: all but an assignment's target
EvaluatedNames(ast) ==
    {n \in Nodes(IF ast.val = AstOp("Assign") /\ Len(ast.branches) = 2
                 THEN ast.branches[2] ELSE ast) : n.val.t = "Name"}

UnknownName(name, span) ==
    CalcrError("Invalid function or constant", name, span)

\* C21: evaluating a Name node whose name is not in the variable table fails
\* with "Invalid function or constant: <name>" at the node's span, and a
\* name in the table evaluates to its value; a submission that returns this
\* error has such a node in its tree.
C21_UnknownName ==
    [][ (submits' # submits /\ tree' # NoAst) =>
           /\ \A n \in EvaluatedNames(tree') :
                 eval_eq(Interpreter(vars, last_result), n)
                    = IF n.val.k \in DOMAIN vars
                      THEN EOk(vars[n.val.k])
                      ELSE EErr(UnknownName(n.val.k, n.span))
           /\ (result'.st = "err"
                 /\ result'.err.desc = "Invalid function or constant")
              => /\ result'.err.arg \notin DOMAIN vars
                 /\ \E n \in EvaluatedNames(tree') :
                       result'.err = UnknownName(n.val.k, n.span)
      ]_state

\* `x + y` has failed on y on a session that holds x
C21_Witness ==
    /\ entry = "tokens"
    /\ toks = Toks(<<TokName("x"), TokOp("Plus"), TokName("y")>>)
    /\ DOMAIN vars = {"x"}
    /\ result.st = "err"
    /\ result.err = UnknownName("y", <<4, 5>>)

-----------------------------------------------------------------------------
\* the number of children a node of the variant has
Arity(val) ==
    CASE val.t \in {"Func", "Paren"} -> 1
      [] val.t = "Op" /\ val.k \in {"Plus", "Minus", "Mult", "Div", "Pow",
                                    "Assign"} -> 2
      [] val.t = "Op" /\ val.k \in {"Neg", "Fact"} -> 1
      [] val.t \in {"Const", "Num", "LastResult", "Name"} -> 0

\* the descriptions of the errors that report a malformed tree
InternalDescs ==
    {"Internal error - expected AST to have 1 branch",
     "Internal error - expected AST to have 2 branches",
     "Interal error - expected Assign to have Name in left branch",
     "Internal error - expected AstOp to have binary branch",
     "Internal error - expected AstOp to have unary branch",
     "Internal error - AstOp nodes must have 1 or 2 branches",
     "Internal error - expected Paren to have unary branch"}

\* C22: every node of every tree the parser returns has the number of
\* children of its variant, and no submission returns an internal error.
C22_Arity ==
    /\ tree # NoAst => \A n \in Nodes(tree) : Len(n.branches) = Arity(n.val)
    /\ result.err.desc \notin InternalDescs

C22_Witness ==
    /\ Submitted(<<"-", "s", "q", "r", "t", "(", "4", ")">>)
    /\ result.st = "ok"
    /\ {n.val.t : n \in Nodes(tree)} = {"Op", "Func", "Paren", "Num"}
    /\ \A n \in Nodes(tree) : Len(n.branches) = Arity(n.val)

-----------------------------------------------------------------------------
\* C23: every internal error, whichever node detects the malformed tree, is
\* returned with no span.
C23_InternalUnspanned ==
    (entry = "tree" /\ result.st = "err" /\ result.err.desc \in InternalDescs)
    => result.err.span = NoSpan

-----------------------------------------------------------------------------
\* C24: every submission returns: the factorial of an operand that passes
\* the domain check is computed in finitely many steps, however large the
\* operand.
C24_FactorialTerminates == result.st # "hang"

-----------------------------------------------------------------------------
\* the nodes of the tree of the last submission that are binary operators
BinaryNodes ==
    {n \in Nodes(tree) : n.val.t = "Op" /\ n.val # AstOp("Assign")
                            /\ Len(n.branches) = 2}

\* C25: the first error in the order lexer, parser, evaluator is the one
\* returned, as it was made: a lexer error whatever the rest of the text
\* would do, else a parser error, and at a binary operator the left
\* operand's error when the left operand fails, the right operand's only
\* when the left operand evaluates.
C25_FirstError ==
    /\ (entry = "text" /\ result.st # "panic" /\ ~lex_equation(expr).ok)
          => result.st = "err" /\ result.err = lex_equation(expr).err
    /\ (Parsed /\ ~parse_tokens(toks).ok)
          => result.st = "err" /\ result.err = parse_tokens(toks).err
    /\ \A n \in BinaryNodes :
          LET l == eval_eq(NewInterpreter, n.branches[1])
              r == eval_eq(NewInterpreter, n.branches[2])
              v == eval_eq(NewInterpreter, n)
          IN  /\ l.st = "err" => v = l
              /\ (l.st = "ok" /\ r.st = "err") => v = r
              /\ (n = tree /\ v.st = "err")
                    => result.st = "err" /\ result.err = v.err

\* "x+x": both operands fail, and the error is the left one's
C25_Witness ==
    /\ Submitted(<<"x", "+", "x">>)
    /\ tree \in BinaryNodes
    /\ eval_eq(NewInterpreter, tree.branches[2]).err = UnknownName("x", <<2, 3>>)
    /\ result.st = "err"
    /\ result.err = UnknownName("x", <<0, 1>>)

-----------------------------------------------------------------------------
\* the nodes of the tree made from the j-th token
NodesAt(j) == {n \in Nodes(tree) : n.span = toks[j].span}

Two    == <<AstNum(Whole(2)), <<>> >>
Three  == <<AstNum(Whole(3)), <<>> >>
Pair(val, l, r) == <<val, <<l, r>> >>

\* C26: every "-" of a text is lexed to the same Minus token; a "-" read
\* where an operand is expected becomes a Neg node over the factor after
\* it, one read after an operand a binary Minus node; "-2^2" is Neg(Pow(2,2))
\* = -4, "2^-1" is Pow(2, Neg(1)) = 0.5 and "3--2" is Minus(3, Neg(2)) = 5.
C26_MinusByPosition ==
    /\ (entry = "text" /\ lex_equation(expr).ok) =>
          /\ \A i \in 1..Len(expr) :
                expr[i] = "-" =>
                   \E j \in 1..Len(toks) :
                      toks[j] = Token(TokOp("Minus"), <<i - 1, i>>)
          /\ \A j \in 1..Len(toks) : toks[j].val # TokOp("Neg")
    /\ (Parsed /\ tree # NoAst) =>
          \A j \in 1..Len(toks) :
             toks[j].val = TokOp("Minus") =>
                /\ Before(j).st = "operand" =>
                      /\ NodesAt(j) # {}
                      /\ \A n \in NodesAt(j) :
                            n.val = AstOp("Neg") /\ Len(n.branches) = 1
                /\ Before(j).st = "operator" =>
                      /\ NodesAt(j) # {}
                      /\ \A n \in NodesAt(j) :
                            n.val = AstOp("Minus") /\ Len(n.branches) = 2
    /\ Submitted(<<"-", "2", "^", "2">>) =>
          /\ Shape(tree) = Wrap(AstOp("Neg"), Pair(AstOp("Pow"), Two, Two))
          /\ result = OkSome(Whole(0 - 4))
    /\ Submitted(<<"2", "^", "-", "1">>) =>
          /\ Shape(tree) = Pair(AstOp("Pow"), Two, Wrap(AstOp("Neg"), One))
          /\ result = OkSome(Halves(1))
    /\ Submitted(<<"3", "-", "-", "2">>) =>
          /\ Shape(tree) = Pair(AstOp("Minus"), Three, Wrap(AstOp("Neg"), Two))
          /\ result = OkSome(Whole(5))

C26_Witness ==
    /\ Submitted(<<"3", "-", "-", "2">>)
    /\ toks[2].val = toks[3].val
    /\ Before(2).st = "operator" /\ Before(3).st = "operand"
    /\ tree.val = AstOp("Minus") /\ tree.span = <<1, 2>>
    /\ tree.branches[2].val = AstOp("Neg")
    /\ result = OkSome(Whole(5))

-----------------------------------------------------------------------------
\* the tokens parse_tokens has not read when it returns
LeftOver == parse_tokens(toks).p.iter

\* C27: parse_tokens returns Ok only when it has read every token; "2 3" and
\* "2 (3)" are rejected.
C27_AllTokensConsumed ==
    /\ (Parsed /\ parse_tokens(toks).ok) => LeftOver = <<>>
    /\ Submitted(<<"2", " ", "3">>) => result.st = "err"
    /\ Submitted(<<"2", " ", "(", "3", ")">>) => result.st = "err"

-----------------------------------------------------------------------------
\* the parser as parse_tokens leaves it, and the tokens it has read
ParserAtReturn == parse_tokens(toks).p
TokensRead == SubSeq(toks, 1, Len(toks) - Len(ParserAtReturn.iter))

\* the tokens of the expression among ts: those after `let name =`
ExpressionOf(ts) ==
    IF Len(ts) >= 3 /\ ts[1].val = TokKeyword("Let")
                    /\ ts[3].val = TokOp("Assign")
    THEN SubSeq(ts, 4, Len(ts)) ELSE ts

\* the groups open after the tokens read
OpenAtReturn == ScanFrom(ExpressionOf(TokensRead)).open

\* C28: wherever a parse ends, by an error or with a tree, paren_level is
\* the number of "(" groups opened and not closed by the tokens read so far
\* and abs_level the number of "|" groups; neither is below zero, and both
\* are zero when parse_tokens returns Ok.
C28_Levels ==
    Parsed =>
       /\ ParserAtReturn.paren_level = Level("paren", OpenAtReturn)
       /\ ParserAtReturn.abs_level = Level("abs", OpenAtReturn)
       /\ ParserAtReturn.paren_level >= 0
       /\ ParserAtReturn.abs_level >= 0
       /\ parse_tokens(toks).ok =>
             ParserAtReturn.paren_level = 0 /\ ParserAtReturn.abs_level = 0

\* "(|1" ends with one group of each kind open
C28_Witness ==
    /\ Submitted(<<"(", "|", "1">>)
    /\ TokensRead = toks
    /\ OpenAtReturn = <<"abs", "paren">>
    /\ ParserAtReturn.paren_level = 1
    /\ ParserAtReturn.abs_level = 1

-----------------------------------------------------------------------------
\* the line under the cursor, and the bytes before the cursor
CurrentLine == input.line_buf[input.line_idx + 1]
BeforeCursor == SubSeq(CurrentLine, 1, input.line_byte_pos)

\* C29: after any keys pressed at the prompt, no call has panicked,
\* line_idx is an index of line_buf, line_byte_pos is on a character
\* boundary of the current line, between 0 and its length in bytes, and
\* cursor_pos is the summed width of the characters before line_byte_pos.
C29_EditorPositions ==
    /\ cmd # "panic"
    /\ input.line_idx \in 0..(Len(input.line_buf) - 1)
    /\ input.line_byte_pos \in 0..Len(CurrentLine)
    /\ \/ input.line_byte_pos = Len(CurrentLine)
       \/ CurrentLine[input.line_byte_pos + 1].at = 1
    /\ input.cursor_pos = line_column_len(BeforeCursor)

=============================================================================
